---- MODULE Spec2Model ----
(***************************************************************************)
(* A model of the low-level prober of libblkid (probe.c): the prober       *)
(* object, its buffer cache, its value list, the chain iteration driver    *)
(* (do_probe, do_safeprobe, do_fullprobe, step_back, do_wipe), the filter  *)
(* functions and set_device / set_dimension.                               *)
(*                                                                         *)
(* A prober is one record `pr` whose fields are the fields of              *)
(* struct blkid_struct_probe.  Every C function is an operator from the    *)
(* prober (and the device behind its descriptor) to a result record that   *)
(* holds the prober after the call and the return code.  An action of the  *)
(* state machine is one call of a public function.                         *)
(***************************************************************************)
EXTENDS Integers, Sequences, FiniteSets, TLC

VARIABLES
    pr,     \* the prober (struct blkid_struct_probe)
    dev,    \* the file or device behind pr.fd: mode, size, content
    pc,     \* "ready", or "aborted" after a failed assert(), or "hung"
    hist    \* the last call made on the prober and what it followed (ghost)

vars == <<pr, dev, pc, hist>>

----------------------------------------------------------------------------
(* Bounds of the model *)

\* uint64_t arithmetic is done modulo Mod64 (2^64 scaled down to 2^26; every
\* size the model uses is far below it, so only genuine wrap-arounds wrap).
Mod64 == 67108864

\* how many entries the buffer list holds at most in the buffer specification
MaxBufs == 2

\* how many values the value-setting specification puts on the list at most
MaxValues == 5

----------------------------------------------------------------------------
(* Program constants *)

BLKID_NCHAINS == 3
BLKID_CHAIN_SUBLKS == 0
BLKID_CHAIN_TOPLGY == 1
BLKID_CHAIN_PARTS == 2

\* a NULL chain pointer (pr->cur_chain, pr->wipe_chain, v->chain)
NoChain == -1

BLKID_PROBE_OK == 0
BLKID_PROBE_NONE == 1

PROBE_MMAP_BEGINSIZ == 2097152
PROBE_MMAP_ENDSIZ == 2097152
PROBE_MMAP_MIDSIZ == 1048576

\* getpagesize()
PageSize == 4096

\* the size of one magic slot read by blkid_probe_get_idmag()
MagSlot == 1024

\* sizeof(buf) in blkid_do_wipe(): BUFSIZ
WipeBufSiz == 8192

\* TINY_DEV limit: 1440 * 1024
TinyLimit == 1474560

EINVAL == 22
ENOMEM == 12

Chains == 0 .. (BLKID_NCHAINS - 1)

----------------------------------------------------------------------------
(* Arithmetic helpers *)

U64(x) == x % Mod64

Min(a, b) == IF a < b THEN a ELSE b

\* PROBE_ALIGN_OFF(p, o): (o) & ~((p)->mmap_granularity - 1ULL)
PROBE_ALIGN_OFF(o) == o - (o % PageSize)

RECURSIVE FormatDec(_)
\* printf("%llu", n): the decimal digits of n, most significant first
FormatDec(n) ==
    IF n < 10 THEN <<n>> ELSE Append(FormatDec(n \div 10), n % 10)

RECURSIVE ParseDecFrom(_, _)
ParseDecFrom(s, acc) ==
    IF s = <<>> \/ Head(s) \notin 0 .. 9 THEN acc
    ELSE ParseDecFrom(Tail(s), U64(acc * 10 + Head(s)))

\* strtoumax(s, NULL, 10) on a digit string
ParseDec(s) == ParseDecFrom(s, 0)

----------------------------------------------------------------------------
(* The chain drivers' static data (struct blkid_chaindrv) and the signature  *)
(* descriptors (struct blkid_idinfo, struct blkid_idmag).  A magic's bytes   *)
(* are one number; two magics with the same number have the same bytes.      *)

Mag(kboff, sboff, magic, len) ==
    [kboff |-> kboff, sboff |-> sboff, magic |-> magic, len |-> len]

\* name, magics, tolerant flag, size of the area the format's mkfs zeroes
\* (registered with blkid_probe_set_wiper(), 0: none), and the name of the
\* value a match sets
IdInfo(name, magics, tolerant, wiper) ==
    [name |-> name, magics |-> magics, tolerant |-> tolerant, wiper |-> wiper]

\* superblocks: "ext" has a primary and a backup magic, "lvm" zeroes 8 KiB
sublks_idinfos ==
    << IdInfo("ext", <<Mag(1, 56, 1, 2), Mag(3, 56, 1, 2)>>, FALSE, 0),
       IdInfo("lvm", <<Mag(0, 536, 2, 8)>>, FALSE, 8192) >>

\* topology: no magic, the probing function asks the kernel
toplgy_idinfos ==
    << IdInfo("ioctl", <<>>, FALSE, 0),
       IdInfo("sysfs", <<>>, FALSE, 0) >>

\* partition tables: "gpt" is tolerant
parts_idinfos ==
    << IdInfo("dos", <<Mag(0, 510, 3, 2)>>, FALSE, 0),
       IdInfo("gpt", <<Mag(0, 1536, 4, 8)>>, TRUE, 0) >>

chains_drvs ==
    [c \in Chains |->
        CASE c = BLKID_CHAIN_SUBLKS ->
                [id |-> c, name |-> "superblocks", dflt_enabled |-> TRUE,
                 has_fltr |-> TRUE, idinfos |-> sublks_idinfos]
          [] c = BLKID_CHAIN_TOPLGY ->
                [id |-> c, name |-> "topology", dflt_enabled |-> FALSE,
                 has_fltr |-> FALSE, idinfos |-> toplgy_idinfos]
          [] c = BLKID_CHAIN_PARTS ->
                [id |-> c, name |-> "partitions", dflt_enabled |-> FALSE,
                 has_fltr |-> TRUE, idinfos |-> parts_idinfos]]

nidinfos(c) == Len(chains_drvs[c].idinfos)

\* descriptor i (0-based, as chn->idx) of chain c
idinfo(c, i) == chains_drvs[c].idinfos[i + 1]

----------------------------------------------------------------------------
(* The device behind the descriptor.  Its content is the set of the magics  *)
(* stored on it: [off, magic, len] says that the len bytes at absolute      *)
(* offset off are the bytes of `magic`; every other byte is zero.           *)

Sig(off, magic, len) == [off |-> off, magic |-> magic, len |-> len]

\* memcmp(mag->magic, <device bytes at absolute offset pos>, mag->len) == 0
DevHas(dv, pos, mag) ==
    \E s \in dv.data : s.off = pos /\ s.magic = mag.magic /\ s.len = mag.len

\* the device after len zero bytes were written at absolute offset off
DevZero(dv, off, len) ==
    [dv EXCEPT !.data = {s \in @ : ~(s.off < off + len /\ off < s.off + s.len)}]

----------------------------------------------------------------------------
(* The value list *)

Value(name, chain, data, len) ==
    [name |-> name, chain |-> chain, data |-> data, len |-> len]

\* blkid_probe_reset_values(): free every value
blkid_probe_reset_values(p) == [p EXCEPT !.values = <<>>]

\* a faulty blkid_probe_chain_reset_values() that frees nothing: with it the
\* values of an ambivalent chain stay on the list and C11_AmbivalentDiscards
\* fails
chain_keep_values(p, chn) == p

\* blkid_probe_chain_reset_values(): remove the values of chain chn
blkid_probe_chain_reset_values(p, chn) ==
    [p EXCEPT !.values = SelectSeq(@, LAMBDA v : v.chain # chn)]

\* a faulty blkid_probe_chain_reset_position() that leaves idx alone: with it
\* a walked chain keeps the idx of its match and C10_Safeprobe fails
chain_keep_position(p, chn) == p

\* blkid_probe_chain_reset_position()
blkid_probe_chain_reset_position(p, chn) ==
    IF chn # NoChain THEN [p EXCEPT !.chains[chn].idx = -1] ELSE p

\* blkid_probe_chain_save_values(): the values of chain chn, moved off the
\* list: [pr |-> the prober without them, vals |-> they, in list order]
blkid_probe_chain_save_values(p, chn) ==
    [pr   |-> [p EXCEPT !.values = SelectSeq(@, LAMBDA v : v.chain # chn)],
     vals |-> SelectSeq(p.values, LAMBDA v : v.chain = chn)]

\* blkid_probe_append_values_list(): list_splice(vals, &pr->values) links the
\* saved values in right after the list head, before the values on the list
blkid_probe_append_values_list(p, vals) ==
    [p EXCEPT !.values = vals \o @]

\* blkid_probe_assign_value() followed by blkid_probe_value_set_data(): a new
\* value at the tail, tagged with the current chain
blkid_probe_set_value(p, name, data, len) ==
    [p EXCEPT !.values = Append(@, Value(name, p.cur_chain, data, len))]

\* blkid_probe_vsprintf_value() with the format "%llu": the value is dropped
\* again when vasprintf() produced nothing
blkid_probe_sprintf_value(p, name, n) ==
    LET str == FormatDec(n)
    IN  IF Len(str) <= 0 THEN p
        ELSE [p EXCEPT !.values = Append(@, Value(name, p.cur_chain, str, Len(str) + 1))]

\* __blkid_probe_lookup_value(): the first value with that name, as a set
\* holding it, or the empty set
blkid_probe_lookup_value(p, name) ==
    LET hits == {k \in DOMAIN p.values : p.values[k].name = name}
    IN  IF hits = {} THEN {}
        ELSE {p.values[CHOOSE k \in hits : \A j \in hits : k <= j]}

\* the MAGIC flag of a chain (BLKID_SUBLKS_MAGIC, BLKID_PARTS_MAGIC)
MagicNames(c) ==
    CASE c = BLKID_CHAIN_SUBLKS -> <<"SBMAGIC", "SBMAGIC_OFFSET">>
      [] c = BLKID_CHAIN_PARTS  -> <<"PTMAGIC", "PTMAGIC_OFFSET">>
      [] OTHER                  -> <<>>

\* blkid_probe_set_magic()
blkid_probe_set_magic(p, offset, len, magic) ==
    LET chn == p.cur_chain
    IN  IF chn = NoChain \/ len = 0 \/ p.chains[chn].binary THEN p
        ELSE IF MagicNames(chn) = <<>> THEN p
        ELSE IF "MAGIC" \notin p.chains[chn].flags THEN p
        ELSE blkid_probe_sprintf_value(
                 blkid_probe_set_value(p, MagicNames(chn)[1], <<magic>>, len),
                 MagicNames(chn)[2], offset)

\* blkid_probe_verify_csum(): [pr, rc], rc = 1 when the checksum is accepted
blkid_probe_verify_csum(p, csum, expected) ==
    IF csum # expected
    THEN IF p.cur_chain = BLKID_CHAIN_SUBLKS
            /\ "BADCSUM" \in p.chains[p.cur_chain].flags
         THEN [pr |-> blkid_probe_set_value(p, "SBBADCSUM", <<1>>, 2), rc |-> 1]
         ELSE [pr |-> p, rc |-> 0]
    ELSE [pr |-> p, rc |-> 1]

----------------------------------------------------------------------------
(* The wiper *)

\* blkid_probe_set_wiper()
blkid_probe_set_wiper(p, off, size) ==
    LET chn == p.cur_chain
    IN  IF size = 0
        THEN [p EXCEPT !.wipe_size = 0, !.wipe_off = 0, !.wipe_chain = NoChain]
        ELSE IF chn = NoChain \/ p.chains[chn].idx < 0
                \/ p.chains[chn].idx >= nidinfos(chn)
        THEN p
        ELSE [p EXCEPT !.wipe_size = size, !.wipe_off = off, !.wipe_chain = chn]

\* blkid_probe_is_wiped()
blkid_probe_is_wiped(p, off, size) ==
    /\ size # 0
    /\ p.wipe_off <= off
    /\ U64(off + size) <= U64(p.wipe_off + p.wipe_size)

\* a faulty blkid_probe_use_wiper() that frees the whole value list: with it
\* the values of the other chains are lost too and C25_UseWiper fails
use_wiper_reset_all(p, off, size) ==
    IF blkid_probe_is_wiped(p, off, size) /\ p.wipe_chain # NoChain
    THEN blkid_probe_reset_values(blkid_probe_set_wiper(p, 0, 0))
    ELSE p

\* blkid_probe_use_wiper()
blkid_probe_use_wiper(p, off, size) ==
    IF blkid_probe_is_wiped(p, off, size) /\ p.wipe_chain # NoChain
    THEN blkid_probe_chain_reset_values(blkid_probe_set_wiper(p, 0, 0), p.wipe_chain)
    ELSE p

----------------------------------------------------------------------------
(* The buffer cache *)

Buf(off, len) == [off |-> off, len |-> len]

\* probe_is_mmap_wanted(): !S_ISCHR(mode)
probe_is_mmap_wanted(p) == p.mode # "CHR"

\* mmap_buffer(): the region to map for the request <real_off, len>.
\* [ok, bf, errno, abrt]: abrt says that one of the two assert()s failed; io
\* is "ok", or "fail" when the system calls of this call fail.
mmap_buffer(p, real_off, len, io) ==
    LET begin  == real_off = 0 \/ U64(real_off + len) < PROBE_MMAP_BEGINSIZ
        atend  == real_off > U64(p.off + p.size + Mod64 - PROBE_MMAP_ENDSIZ)
        mapoff == IF begin THEN 0
                  ELSE IF atend
                  THEN PROBE_ALIGN_OFF(U64(p.off + p.size + Mod64 - PROBE_MMAP_ENDSIZ))
                  ELSE PROBE_ALIGN_OFF(real_off)
        minlen == U64(real_off + len + Mod64 - mapoff)
        midlen == IF minlen > PROBE_MMAP_MIDSIZ THEN minlen ELSE PROBE_MMAP_MIDSIZ
        maplen == IF begin
                  THEN (IF PROBE_MMAP_BEGINSIZ > p.size THEN p.size
                        ELSE PROBE_MMAP_BEGINSIZ)
                  ELSE IF atend THEN U64(p.off + p.size + Mod64 - mapoff)
                  ELSE IF U64(mapoff + midlen) > U64(p.off + p.size)
                  THEN U64(p.size + Mod64 - mapoff)
                  ELSE midlen
        bf     == Buf(mapoff, maplen)
    IN  IF ~(mapoff <= real_off /\ U64(mapoff + maplen) >= U64(real_off + len))
        THEN [ok |-> FALSE, bf |-> bf, errno |-> 0, abrt |-> TRUE]
        ELSE IF io = "fail"
        THEN [ok |-> FALSE, bf |-> bf, errno |-> ENOMEM, abrt |-> FALSE]
        ELSE [ok |-> TRUE, bf |-> bf, errno |-> 0, abrt |-> FALSE]

\* read_buffer(): seek and read exactly the requested bytes; a failed seek or
\* a short read leaves errno = 0
read_buffer(p, real_off, len, io) ==
    IF io = "fail"
    THEN [ok |-> FALSE, bf |-> Buf(real_off, len), errno |-> 0, abrt |-> FALSE]
    ELSE [ok |-> TRUE, bf |-> Buf(real_off, len), errno |-> 0, abrt |-> FALSE]

\* a faulty blkid_probe_get_buffer() without the tests of the request against
\* the probing area: it reads whatever is asked for and caches it, so that
\* C13_OutOfArea fails
get_buffer_unchecked(p, off, len, io) ==
    LET got(new) ==
            [pr |-> [p EXCEPT !.buffers = Append(@, new.bf)], buf |-> new.ok,
             bf |-> new.bf, real_off |-> new.bf.off, errno |-> new.errno,
             abrt |-> new.abrt]
    IN  got(read_buffer(p, U64(p.off + off), len, io))

\* the first cached range that holds the request, as a set
ReuseBuffer(p, real_off, len) ==
    LET hits == {k \in DOMAIN p.buffers :
                    /\ real_off >= p.buffers[k].off
                    /\ U64(real_off + len) <= U64(p.buffers[k].off + p.buffers[k].len)}
    IN  IF hits = {} THEN {}
        ELSE {p.buffers[CHOOSE k \in hits : \A j \in hits : k <= j]}

\* blkid_probe_get_buffer(): off is relative to the probing area.
\* [pr, buf, bf, real_off, errno, abrt]: buf says that a pointer is returned,
\* bf is the cache range that serves the request.  (No prober of this model
\* has a parent, so the branch for clones is not taken.)
blkid_probe_get_buffer(p, off, len, io) ==
    LET real_off == U64(p.off + off)
        none(e)  == [pr |-> p, buf |-> FALSE, bf |-> Buf(0, 0), real_off |-> real_off,
                     errno |-> e, abrt |-> FALSE]
        \* the two assert()s and the return, for the range bf that serves the
        \* request; p1 is the prober with its buffer list
        served(p1, bf) ==
            [pr |-> p1, buf |-> TRUE, bf |-> bf, real_off |-> real_off, errno |-> 0,
             abrt |-> ~(bf.off <= real_off
                        /\ U64(bf.off + bf.len) >= U64(real_off + len))]
        \* if (!bf): new is what mmap_buffer() or read_buffer() returned
        fresh(new) ==
            IF new.abrt
            THEN [pr |-> p, buf |-> FALSE, bf |-> new.bf, real_off |-> real_off,
                  errno |-> 0, abrt |-> TRUE]
            ELSE IF ~new.ok
            THEN [pr |-> p, buf |-> FALSE, bf |-> new.bf, real_off |-> real_off,
                  errno |-> new.errno, abrt |-> FALSE]
            ELSE served([p EXCEPT !.buffers = Append(@, new.bf)], new.bf)
        \* after the list_for_each() that looks for a range to reuse
        looked(reuse) ==
            IF reuse # {} THEN served(p, CHOOSE x \in reuse : TRUE)
            ELSE fresh(IF probe_is_mmap_wanted(p)
                       THEN mmap_buffer(p, real_off, len, io)
                       ELSE read_buffer(p, real_off, len, io))
    IN  IF p.size = 0 THEN none(EINVAL)
        ELSE IF len = 0 \/ U64(p.off + p.size) < U64(real_off + len) THEN none(0)
        ELSE looked(ReuseBuffer(p, real_off, len))

\* blkid_probe_reset_buffer()
blkid_probe_reset_buffer(p) == [p EXCEPT !.buffers = <<>>]

----------------------------------------------------------------------------
(* Reset, device and probing area *)

\* a faulty reset that takes one value off the list per call: with it a
\* second call changes the prober again and C22_ResetIdempotent fails
reset_probe_one_value(p) ==
    [p EXCEPT !.values = IF @ = <<>> THEN @ ELSE Tail(@),
              !.cur_chain = NoChain]

\* a faulty reset that frees the filters as well: with it a reset changes
\* what the next probing skips and C31_ResetFrame fails
reset_probe_and_filters(p) ==
    [p EXCEPT !.values = <<>>, !.wipe_off = 0, !.wipe_size = 0,
              !.wipe_chain = NoChain, !.cur_chain = NoChain,
              !.chains = [c \in Chains |->
                            [@[c] EXCEPT !.idx = -1, !.fltr = {},
                                         !.fltr_alloc = FALSE]]]

\* blkid_reset_probe()
blkid_reset_probe(p) ==
    LET p1 == blkid_probe_set_wiper(blkid_probe_reset_values(p), 0, 0)
    IN  [p1 EXCEPT !.cur_chain = NoChain,
                   !.chains = [c \in Chains |-> [@[c] EXCEPT !.idx = -1]]]

\* blkid_probe_set_device(): [pr, rc].  dv is what fstat(), blkdev_get_size(),
\* sysfs and the CDROM ioctl say about fd.
blkid_probe_set_device(p, fd, off, size, dv) ==
    LET p1 == blkid_probe_reset_buffer(blkid_reset_probe(p))
        p2 == [p1 EXCEPT !.flags = @ \ {"PRIVATE_FD", "TINY_DEV", "CDROM_DEV"},
                         !.prob_flags = {}, !.fd = fd, !.off = U64(off),
                         !.size = 0, !.devno = 0, !.disk_devno = 0,
                         !.mode = "NONE", !.blkssz = 0,
                         !.wipe_off = 0, !.wipe_size = 0, !.wipe_chain = NoChain]
        isblk  == dv.mode = "BLK"
        ischr  == dv.mode = "CHR"
        p3 == [p2 EXCEPT !.mode = dv.mode,
                         !.devno = IF isblk \/ ischr THEN dv.rdev ELSE 0]
        devsiz == IF ischr THEN 1 ELSE dv.size
        sz0    == IF size # 0 THEN U64(size) ELSE devsiz
        sz     == IF off # 0 /\ size = 0 THEN U64(sz0 + Mod64 - U64(off)) ELSE sz0
        p4 == [p3 EXCEPT !.size = sz]
        tiny == sz <= TinyLimit /\ ~ischr
        p5 == [p4 EXCEPT !.flags =
                 (IF tiny THEN @ \cup {"TINY_DEV"} ELSE @)
                 \cup (IF isblk /\ dv.lvm_private THEN {"NOSCAN_DEV"}
                       ELSE IF isblk /\ ~tiny /\ dv.cdrom THEN {"CDROM_DEV"}
                       ELSE {})]
    IN  IF dv.mode = "NOSTAT" THEN [pr |-> p2, rc |-> -1]
        ELSE IF dv.mode \notin {"BLK", "CHR", "REG"} THEN [pr |-> p2, rc |-> -1]
        ELSE IF isblk /\ dv.size_fails THEN [pr |-> p3, rc |-> -1]
        ELSE IF U64(p4.off + p4.size) > devsiz THEN [pr |-> p4, rc |-> -1]
        ELSE [pr |-> p5, rc |-> 0]

\* blkid_probe_set_dimension()
blkid_probe_set_dimension(p, off, size) ==
    blkid_probe_reset_buffer(
        [p EXCEPT !.off = off, !.size = size,
                  !.flags = (@ \ {"TINY_DEV"})
                            \cup (IF size <= TinyLimit /\ p.mode # "CHR"
                                  THEN {"TINY_DEV"} ELSE {})])

----------------------------------------------------------------------------
(* The magic matcher *)

RECURSIVE idmag_from(_, _, _, _, _)
\* the loop of blkid_probe_get_idmag() from magic number k on
idmag_from(p, dv, magics, k, io) ==
    IF k > Len(magics)
    THEN [pr |-> p, rc |-> IF Len(magics) > 0 THEN BLKID_PROBE_NONE ELSE BLKID_PROBE_OK,
          offset |-> 0, mag |-> 0, abrt |-> FALSE]
    ELSE LET mag == magics[k]
             off == U64((mag.kboff + (mag.sboff \div 1024)) * 1024)
             \* the body of the loop for b, what blkid_probe_get_buffer() returned
             read(b) ==
                 IF b.abrt
                 THEN [pr |-> b.pr, rc |-> 0, offset |-> 0, mag |-> 0, abrt |-> TRUE]
                 ELSE IF ~b.buf /\ b.errno # 0
                 THEN [pr |-> b.pr, rc |-> -b.errno, offset |-> 0, mag |-> 0,
                       abrt |-> FALSE]
                 ELSE IF b.buf /\ DevHas(dv, b.real_off + (mag.sboff % 1024), mag)
                 THEN [pr |-> b.pr, rc |-> BLKID_PROBE_OK,
                       offset |-> off + (mag.sboff % 1024), mag |-> k, abrt |-> FALSE]
                 ELSE idmag_from(b.pr, dv, magics, k + 1, io)
         IN  read(blkid_probe_get_buffer(p, off, MagSlot, io))

\* a faulty blkid_probe_get_idmag() that reports the begin of the slot it read
\* in place of the place of the magic in it: with it C35_Idmag fails
get_idmag_slot_begin(p, dv, id, io) ==
    LET slot(r) == [r EXCEPT !.offset = @ - (@ % MagSlot)]
    IN  slot(idmag_from(p, dv, id.magics, 1, io))

\* blkid_probe_get_idmag(): [pr, rc, offset, mag, abrt]; mag is the number of
\* the magic that matched (0: none), offset its offset in the probing area
blkid_probe_get_idmag(p, dv, id, io) == idmag_from(p, dv, id.magics, 1, io)

----------------------------------------------------------------------------
(* The filters *)

\* blkid_probe_get_filter(): [pr, fltr]; fltr says that a bitmap is returned
blkid_probe_get_filter(p, chain, create) ==
    IF chain < 0 \/ chain >= BLKID_NCHAINS THEN [pr |-> p, fltr |-> FALSE]
    ELSE LET p1 == [blkid_probe_chain_reset_position(p, chain)
                        EXCEPT !.cur_chain = NoChain]
             chn == p1.chains[chain]
         IN  IF ~chains_drvs[chain].has_fltr \/ (~chn.fltr_alloc /\ ~create)
             THEN [pr |-> p1, fltr |-> FALSE]
             ELSE [pr |-> [p1 EXCEPT !.chains[chain].fltr_alloc = TRUE,
                                     !.chains[chain].fltr = {}],
                   fltr |-> TRUE]

\* __blkid_probe_invert_filter(): [pr, rc]
blkid_probe_invert_filter(p, chain) ==
    LET chn == p.chains[chain]
    IN  IF ~chains_drvs[chain].has_fltr \/ ~chn.fltr_alloc
        THEN [pr |-> p, rc |-> -1]
        ELSE [pr |-> [p EXCEPT !.chains[chain].fltr =
                                    (0 .. (nidinfos(chain) - 1)) \ @],
              rc |-> 0]

\* __blkid_probe_reset_filter(): [pr, rc]
blkid_probe_reset_filter(p, chain) ==
    LET g == blkid_probe_get_filter(p, chain, FALSE)
    IN  [pr |-> g.pr, rc |-> IF g.fltr THEN 0 ELSE -1]

\* a faulty __blkid_probe_filter_types() that sets its bits in the bitmap it
\* finds: with it the old filter shows through and C36_FilterTypes fails
filter_types_accumulate(p, chain, flag, names) ==
    LET chn  == p.chains[chain]
        bits == {i \in 0 .. (nidinfos(chain) - 1) :
                    LET has == idinfo(chain, i).name \in names
                    IN  IF flag = "ONLYIN" THEN ~has ELSE has}
    IN  IF ~chains_drvs[chain].has_fltr THEN [pr |-> p, rc |-> -1]
        ELSE [pr |-> [p EXCEPT !.chains[chain].fltr_alloc = TRUE,
                               !.chains[chain].fltr = @ \cup bits,
                               !.chains[chain].idx = -1,
                               !.cur_chain = NoChain],
              rc |-> 0]

\* __blkid_probe_filter_types(): [pr, rc]; flag is "ONLYIN" or "NOTIN",
\* names a set of descriptor names
blkid_probe_filter_types(p, chain, flag, names) ==
    LET g == blkid_probe_get_filter(p, chain, TRUE)
        bits == {i \in 0 .. (nidinfos(chain) - 1) :
                    LET has == idinfo(chain, i).name \in names
                    IN  IF flag = "ONLYIN" THEN ~has
                        ELSE IF flag = "NOTIN" THEN has
                        ELSE FALSE}
    IN  IF ~g.fltr THEN [pr |-> g.pr, rc |-> -1]
        ELSE [pr |-> [g.pr EXCEPT !.chains[chain].fltr = bits], rc |-> 0]

----------------------------------------------------------------------------
(* The chain drivers' probing functions (superblocks.c, topology.c and       *)
(* partitions.c implement them; they are modelled after their contract).     *)

\* the name of the value a match of chain c sets
TypeName(c) ==
    CASE c = BLKID_CHAIN_SUBLKS -> "TYPE"
      [] c = BLKID_CHAIN_TOPLGY -> "IO_SIZE"
      [] OTHER                  -> "PTTYPE"

\* what a match sets: the binary result, or the values of the chain (the
\* type, the magic and its offset), the wiper of a format that zeroes the
\* begin of the device, and the check of a partition table against the wiper
chain_set_result(p, c, i, m) ==
    LET id == idinfo(c, i)
    IN  IF p.chains[c].binary THEN p
        ELSE LET p1 == blkid_probe_set_value(p, TypeName(c), <<i>>, 2)
                 p2 == IF m.mag = 0 THEN p1
                       ELSE blkid_probe_set_magic(p1, m.offset, id.magics[m.mag].len,
                                                  id.magics[m.mag].magic)
                 p3 == IF id.wiper > 0 THEN blkid_probe_set_wiper(p2, 0, id.wiper)
                       ELSE p2
             IN  IF c = BLKID_CHAIN_PARTS /\ m.mag # 0
                 THEN blkid_probe_use_wiper(p3, m.offset, id.magics[m.mag].len)
                 ELSE p3

RECURSIVE chain_probe_from(_, _, _, _, _)
\* the descriptors of chain c from number i on
chain_probe_from(p, dv, c, i, io) ==
    IF i >= nidinfos(c) THEN [pr |-> p, rc |-> BLKID_PROBE_NONE, abrt |-> FALSE]
    ELSE LET p1 == [p EXCEPT !.chains[c].idx = i]
             id == idinfo(c, i)
             cb == id.magics # <<>> \/ i \in dv.topo
             \* the descriptor after m, what blkid_probe_get_idmag() returned
             checked(m) ==
                 IF m.abrt THEN [pr |-> m.pr, rc |-> 0, abrt |-> TRUE]
                 ELSE IF m.rc < 0 THEN [pr |-> m.pr, rc |-> m.rc, abrt |-> FALSE]
                 ELSE IF m.rc # BLKID_PROBE_OK \/ ~cb
                 THEN chain_probe_from(m.pr, dv, c, i + 1, io)
                 ELSE [pr |-> chain_set_result(m.pr, c, i, m), rc |-> BLKID_PROBE_OK,
                       abrt |-> FALSE]
         IN  IF p1.chains[c].fltr_alloc /\ i \in p1.chains[c].fltr
             THEN chain_probe_from(p1, dv, c, i + 1, io)
             ELSE checked(blkid_probe_get_idmag(p1, dv, id, io))

\* driver->probe(pr, chn): the previous result of the chain is zeroized,
\* then the chain goes on from the descriptor after chn->idx to the next
\* one that matches.  A chain that has nothing to read (an empty probing
\* area) bails out right at the start.  [pr, rc, abrt]
chain_probe(p, dv, c, io) ==
    LET p0 == blkid_probe_chain_reset_values(p, c)
        i  == IF p0.chains[c].idx < 0 THEN 0 ELSE p0.chains[c].idx + 1
    IN  IF p0.size = 0 THEN [pr |-> p0, rc |-> BLKID_PROBE_NONE, abrt |-> FALSE]
        ELSE chain_probe_from(p0, dv, c, i, io)

RECURSIVE chain_safeprobe_from(_, _, _, _, _, _, _, _)
\* the loop of driver->safeprobe(): probe until the chain is exhausted, keep
\* the values and the position of the first match
chain_safeprobe_from(p, dv, c, io, count, intol, vals, first) ==
    LET \* one round of the loop for r, what the probing of the chain returned
        probed(r) ==
            IF r.abrt \/ r.rc < 0 THEN r
            ELSE IF r.rc = BLKID_PROBE_OK
            THEN LET i  == r.pr.chains[c].idx
                     n  == IF idinfo(c, i).tolerant THEN intol ELSE intol + 1
                     sv == blkid_probe_chain_save_values(r.pr, c)
                 IN  IF count = 0
                     THEN chain_safeprobe_from(sv.pr, dv, c, io, 1, n, sv.vals, i)
                     ELSE chain_safeprobe_from(r.pr, dv, c, io, count + 1, n, vals,
                                               first)
            ELSE IF intol >= 2 THEN [pr |-> r.pr, rc |-> -2, abrt |-> FALSE]
            ELSE IF count = 0
            THEN [pr |-> r.pr, rc |-> BLKID_PROBE_NONE, abrt |-> FALSE]
            ELSE [pr |-> [blkid_probe_append_values_list(r.pr, vals)
                              EXCEPT !.chains[c].idx = first],
                  rc |-> BLKID_PROBE_OK, abrt |-> FALSE]
    IN  probed(chain_probe(p, dv, c, io))

\* driver->safeprobe(pr, chn): ok when one descriptor matches (further
\* matches all tolerant), -2 when two or more intolerant ones match, none
\* when nothing matches.  [pr, rc, abrt]
chain_safeprobe(p, dv, c, io) ==
    chain_safeprobe_from(p, dv, c, io, 0, 0, <<>>, -1)

----------------------------------------------------------------------------
(* The iteration driver *)

\* blkid_probe_start()
blkid_probe_start(p) ==
    blkid_probe_set_wiper([p EXCEPT !.cur_chain = NoChain, !.prob_flags = {}], 0, 0)

\* a faulty blkid_probe_end() that leaves the prober as it is: with it
\* cur_chain still names the last chain after the loop is done and
\* C12_NothingFound fails
probe_end_keeps_chain(p) == p

\* blkid_probe_end()
blkid_probe_end(p) ==
    blkid_probe_set_wiper([p EXCEPT !.cur_chain = NoChain, !.prob_flags = {}], 0, 0)

\* the descriptor at which chain c starts when its probing function is called
StartOf(p, c) == IF p.chains[c].idx < 0 THEN 0 ELSE p.chains[c].idx + 1

\* a faulty test that leaves a chain although it has descriptors left: with
\* it the loop skips matching descriptors and C2_LoopInOrder fails
do_probe_next_always(p, chn, rc) == rc = 1

\* the test of blkid_do_probe() that sends it to the next chain
do_probe_next_chain(p, chn, rc) ==
    rc = 1 /\ (~p.chains[chn].enabled
               \/ p.chains[chn].idx + 1 = nidinfos(chn)
               \/ p.chains[chn].idx = -1)

RECURSIVE do_probe_loop(_, _, _, _, _)
\* the do { } while (rc == 1) loop of blkid_do_probe(); rc is 1 whenever the
\* body is entered.  calls lists the driver->probe() calls made so far as
\* <<chain, first descriptor tried>>.  hang: the body was entered twice with
\* the same prober, so the loop never ends.
do_probe_loop(p, dv, io, rc, calls) ==
    LET chn0 == p.cur_chain
        start == chn0 = NoChain
        next  == ~start /\ do_probe_next_chain(p, chn0, rc)
        idx   == chains_drvs[chn0].id + 1
        p1 == IF start THEN [blkid_probe_start(p) EXCEPT !.cur_chain = 0]
              ELSE IF next /\ idx < BLKID_NCHAINS THEN [p EXCEPT !.cur_chain = idx]
              ELSE p
        chn == p1.cur_chain
        p2 == [p1 EXCEPT !.chains[chn].binary = FALSE]
        cs == Append(calls, <<chn, StartOf(p2, chn)>>)
        \* the end of the body for r, what chn->driver->probe() returned
        probed(r) ==
            IF r.abrt
            THEN [pr |-> r.pr, rc |-> 0, abrt |-> TRUE, hang |-> FALSE, calls |-> cs]
            ELSE IF r.rc # 1
            THEN [pr |-> r.pr, rc |-> r.rc, abrt |-> FALSE, hang |-> FALSE,
                  calls |-> cs]
            ELSE IF r.pr = p /\ ~do_probe_next_chain(r.pr, chn, 1)
            THEN [pr |-> r.pr, rc |-> 1, abrt |-> FALSE, hang |-> TRUE, calls |-> cs]
            ELSE do_probe_loop(r.pr, dv, io, r.rc, cs)
    IN  IF next /\ idx >= BLKID_NCHAINS
        THEN [pr |-> blkid_probe_end(p), rc |-> 1, abrt |-> FALSE, hang |-> FALSE,
              calls |-> calls]
        ELSE IF ~p2.chains[chn].enabled THEN do_probe_loop(p2, dv, io, rc, calls)
        ELSE probed(chain_probe(p2, dv, chn, io))

\* blkid_do_probe(): [pr, rc, abrt, hang, calls]
blkid_do_probe(p, dv, io) ==
    IF "NOSCAN_DEV" \in p.flags
    THEN [pr |-> p, rc |-> 1, abrt |-> FALSE, hang |-> FALSE, calls |-> <<>>]
    ELSE do_probe_loop(p, dv, io, 1, <<>>)

\* a faulty blkid_probe_step_back() that decrements idx without the test
\* idx >= 0: with it idx falls to -2 and C1_IdxInRange fails
step_back_unguarded(p) ==
    LET chn == p.cur_chain
        p1  == blkid_probe_reset_buffer(p)
        p2  == [p1 EXCEPT !.chains[chn].idx = @ - 1]
        idx == IF chains_drvs[chn].id > 0 THEN chains_drvs[chn].id - 1 ELSE 0
    IN  IF chn = NoChain THEN [pr |-> p, rc |-> -1]
        ELSE IF p2.chains[chn].idx = -1
        THEN [pr |-> [p2 EXCEPT !.cur_chain = IF idx > 0 THEN idx ELSE NoChain],
              rc |-> 0]
        ELSE [pr |-> p2, rc |-> 0]

\* blkid_probe_step_back(): [pr, rc]
blkid_probe_step_back(p) ==
    LET chn == p.cur_chain
        p1  == blkid_probe_reset_buffer(p)
        p2  == IF p1.chains[chn].idx >= 0
               THEN [p1 EXCEPT !.chains[chn].idx = @ - 1] ELSE p1
        idx == IF chains_drvs[chn].id > 0 THEN chains_drvs[chn].id - 1 ELSE 0
    IN  IF chn = NoChain THEN [pr |-> p, rc |-> -1]
        ELSE IF p2.chains[chn].idx = -1
        THEN [pr |-> [p2 EXCEPT !.cur_chain = IF idx > 0 THEN idx ELSE NoChain],
              rc |-> 0]
        ELSE [pr |-> p2, rc |-> 0]

\* a faulty blkid_do_wipe() that writes whatever dryrun says: with it a dry
\* run erases the signature and steps back, and C32_DryWipe fails
wipe_ignores_dryrun(p, dv, dryrun, io) ==
    LET chn  == p.cur_chain
        nm   == MagicNames(chn)
        offv == blkid_probe_lookup_value(p, nm[2])
        lenv == blkid_probe_lookup_value(p, nm[1])
        len0 == (CHOOSE v \in lenv : TRUE).len
        offset == ParseDec((CHOOSE v \in offv : TRUE).data)
        len  == IF len0 > WipeBufSiz THEN WipeBufSiz ELSE len0
        sb   == blkid_probe_step_back(p)
    IN  IF chn = NoChain THEN [pr |-> p, dev |-> dv, rc |-> -1]
        ELSE IF nm = <<>> THEN [pr |-> p, dev |-> dv, rc |-> 0]
        ELSE IF offv = {} \/ lenv = {} \/ len0 = 0 THEN [pr |-> p, dev |-> dv, rc |-> 0]
        ELSE IF io = "fail" THEN [pr |-> p, dev |-> dv, rc |-> -1]
        ELSE [pr |-> sb.pr, dev |-> DevZero(dv, offset, len), rc |-> sb.rc]

\* blkid_do_wipe(): [pr, dev, rc]; the device is written unless dryrun
blkid_do_wipe(p, dv, dryrun, io) ==
    LET chn  == p.cur_chain
        nm   == MagicNames(chn)
        offv == blkid_probe_lookup_value(p, nm[2])
        lenv == blkid_probe_lookup_value(p, nm[1])
        len0 == (CHOOSE v \in lenv : TRUE).len
        offset == ParseDec((CHOOSE v \in offv : TRUE).data)
        len  == IF len0 > WipeBufSiz THEN WipeBufSiz ELSE len0
        sb   == blkid_probe_step_back(p)
    IN  IF chn = NoChain THEN [pr |-> p, dev |-> dv, rc |-> -1]
        ELSE IF nm = <<>> THEN [pr |-> p, dev |-> dv, rc |-> 0]
        ELSE IF offv = {} \/ lenv = {} \/ len0 = 0 THEN [pr |-> p, dev |-> dv, rc |-> 0]
        ELSE IF p.fd < 0 THEN [pr |-> p, dev |-> dv, rc |-> -1]
        ELSE IF io = "fail" THEN [pr |-> p, dev |-> dv, rc |-> -1]
        ELSE IF dryrun \/ len = 0 THEN [pr |-> p, dev |-> dv, rc |-> 0]
        ELSE [pr |-> sb.pr, dev |-> DevZero(dv, offset, len), rc |-> sb.rc]

RECURSIVE safeprobe_chains(_, _, _, _, _, _, _)
\* the for loop of blkid_do_safeprobe() (safe) and of blkid_do_fullprobe()
\* from chain i on; calls lists the driver calls made as <<chain, rc>>
safeprobe_chains(p, dv, io, safe, i, count, calls) ==
    IF i >= BLKID_NCHAINS
    THEN [pr |-> p, rc |-> 0, count |-> count, abrt |-> FALSE, calls |-> calls]
    ELSE LET p1 == [p EXCEPT !.cur_chain = i, !.chains[i].binary = FALSE]
             p2 == blkid_probe_chain_reset_position(p1, i)
             \* the end of the body for r, what the driver returned, and p3,
             \* the prober after the position of the chain is reset again
             probed(r, p3) ==
                 IF r.abrt
                 THEN [pr |-> r.pr, rc |-> 0, count |-> count, abrt |-> TRUE,
                       calls |-> Append(calls, <<i, r.rc>>)]
                 ELSE IF r.rc < 0
                 THEN [pr |-> p3, rc |-> r.rc, count |-> count, abrt |-> FALSE,
                       calls |-> Append(calls, <<i, r.rc>>)]
                 ELSE safeprobe_chains(p3, dv, io, safe, i + 1,
                                       IF r.rc = 0 THEN count + 1 ELSE count,
                                       Append(calls, <<i, r.rc>>))
             reset(r) == probed(r, blkid_probe_chain_reset_position(r.pr, i))
         IN  IF ~p1.chains[i].enabled
             THEN safeprobe_chains(p1, dv, io, safe, i + 1, count, calls)
             ELSE reset(IF safe THEN chain_safeprobe(p2, dv, i, io)
                        ELSE chain_probe(p2, dv, i, io))

\* the common body of blkid_do_safeprobe() and blkid_do_fullprobe()
do_allprobe(p, dv, io, safe) ==
    LET \* after the for loop: w is what the walk over the chains returned
        walked(w) ==
            IF w.abrt
            THEN [pr |-> w.pr, rc |-> 0, abrt |-> TRUE, hang |-> FALSE,
                  calls |-> w.calls]
            ELSE [pr |-> blkid_probe_end(w.pr),
                  rc |-> IF w.rc < 0 THEN w.rc ELSE IF w.count > 0 THEN 0 ELSE 1,
                  abrt |-> FALSE, hang |-> FALSE, calls |-> w.calls]
    IN  IF "NOSCAN_DEV" \in p.flags
        THEN [pr |-> p, rc |-> 1, abrt |-> FALSE, hang |-> FALSE, calls |-> <<>>]
        ELSE walked(safeprobe_chains(blkid_probe_start(p), dv, io, safe, 0, 0, <<>>))

\* blkid_do_safeprobe(): [pr, rc, abrt, hang, calls]
blkid_do_safeprobe(p, dv, io) == do_allprobe(p, dv, io, TRUE)

\* a faulty blkid_do_fullprobe() that stops at the first match as
\* blkid_do_probe() does: with it the chain of the match keeps its idx and
\* C23_ValueChainIdx fails
fullprobe_first_match(p, dv, io) == blkid_do_probe(p, dv, io)

\* blkid_do_fullprobe(): [pr, rc, abrt, hang, calls]
blkid_do_fullprobe(p, dv, io) == do_allprobe(p, dv, io, FALSE)

\* blkid_probe_get_binary_data(): [pr, rc, abrt]; rc # 0 returns NULL
blkid_probe_get_binary_data(p, dv, chn, io) ==
    LET p1 == [p EXCEPT !.cur_chain = chn, !.prob_flags = {},
                        !.chains[chn].binary = TRUE]
        \* after chn->driver->probe() returned r
        probed(r) ==
            IF r.abrt THEN [pr |-> r.pr, rc |-> 0, abrt |-> TRUE]
            ELSE [pr |-> [blkid_probe_chain_reset_position(r.pr, chn)
                              EXCEPT !.chains[chn].binary = FALSE,
                                     !.cur_chain = p.cur_chain,
                                     !.prob_flags = p.prob_flags],
                  rc |-> r.rc, abrt |-> FALSE]
    IN  probed(chain_probe(blkid_probe_chain_reset_position(p1, chn), dv, chn, io))

----------------------------------------------------------------------------
(* Construction *)

\* __blkid_new_probe() and blkid_probe_set_config(): calloc() zeroes the
\* struct (idx = 0, fd = 0), the chains take the defaults of their drivers
\* and PROBE_OFF= of the configuration becomes a filter of the superblocks
blkid_new_probe(probeoff) ==
    LET p == [chains |-> [c \in Chains |->
                            [enabled |-> chains_drvs[c].dflt_enabled,
                             flags |-> {}, fltr_alloc |-> FALSE, fltr |-> {},
                             idx |-> 0, binary |-> FALSE]],
              cur_chain |-> NoChain, prob_flags |-> {}, flags |-> {},
              fd |-> 0, off |-> 0, size |-> 0, devno |-> 0, disk_devno |-> 0,
              mode |-> "NONE", blkssz |-> 0,
              buffers |-> <<>>, values |-> <<>>,
              wipe_off |-> 0, wipe_size |-> 0, wipe_chain |-> NoChain]
    IN  IF probeoff = {} THEN p
        ELSE blkid_probe_filter_types(p, BLKID_CHAIN_SUBLKS, "NOTIN", probeoff).pr

\* blkid_probe_enable_superblocks() / _topology() / _partitions() and
\* blkid_probe_set_superblocks_flags() / _partitions_flags(), called right
\* after construction: en is the set of enabled chains, fl the chain flags
probe_configure(p, en, fl) ==
    [p EXCEPT !.chains = [c \in Chains |->
                            [@[c] EXCEPT !.enabled = c \in en,
                                         !.flags = IF c = BLKID_CHAIN_TOPLGY
                                                   THEN {} ELSE fl]]]

----------------------------------------------------------------------------
(* The ghost record of the last call, kept for the calls the properties     *)
(* speak about (every other call leaves the record NoCall):                 *)
(*   do_probe       with what it followed:                                  *)
(*     ctx = "loop"   it is part of an unbroken loop of successful do_probe *)
(*                    calls on a freshly reset prober (reset_probe or a     *)
(*                    successful set_device); prev is where the previous    *)
(*                    do_probe of the loop stood, if there was one          *)
(*     ctx = "step"   it follows a step_back that returned 0 right after a  *)
(*                    successful do_probe; prev is where that one stood     *)
(*     ctx = "wipe"   it follows a do_wipe(FALSE) that returned 0 right     *)
(*                    after a successful do_probe; prev as above            *)
(*     ctx = "filter" it follows a filter function that returned 0          *)
(*   do_safeprobe   with the driver calls it made, and do_fullprobe         *)
(*   step_back and do_wipe(FALSE) that returned 0 right after a successful  *)
(*                  do_probe (ctx = "probed"); prev is where that one stood *)
(*   the filter functions that returned 0, reset_probe, and a successful    *)
(*                  set_device                                              *)
(* pure says that the loop of successful do_probe calls is unbroken.        *)

\* the value of the magic offset tag of the current chain, -1 without one
MagicOffsetOf(p) ==
    LET nm == IF p.cur_chain = NoChain THEN <<>> ELSE MagicNames(p.cur_chain)
        v  == IF nm = <<>> THEN {} ELSE blkid_probe_lookup_value(p, nm[2])
    IN  IF v = {} THEN -1 ELSE ParseDec((CHOOSE x \in v : TRUE).data)

\* where the prober stands: current chain, its idx, its magic offset tag
Pos(p) ==
    [cur |-> p.cur_chain,
     idx |-> IF p.cur_chain = NoChain THEN -1 ELSE p.chains[p.cur_chain].idx,
     moff |-> MagicOffsetOf(p)]

NoPos == [cur |-> NoChain, idx |-> -1, moff |-> -1]

NoCall == [op |-> "none", rc |-> 0, calls |-> <<>>, ctx |-> "other",
           prev |-> NoPos, pure |-> FALSE]

FilterOps == {"filter_types", "invert_filter", "reset_filter"}

\* the record of a call op made on prober p after the call h, which returned
\* rc and made the driver calls calls
Call(h, p, op, rc, calls) ==
    LET probed == h.op = "do_probe" /\ h.rc = 0
        ctx == IF op = "do_probe"
               THEN (IF h.pure THEN "loop"
                     ELSE IF h.op = "step_back" THEN "step"
                     ELSE IF h.op = "do_wipe" THEN "wipe"
                     ELSE IF h.op \in FilterOps THEN "filter"
                     ELSE "other")
               ELSE IF op \in {"step_back", "do_wipe"} /\ probed /\ rc = 0
               THEN "probed"
               ELSE "other"
        keep == \/ op \in {"do_probe", "do_safeprobe", "do_fullprobe", "reset_probe",
                            "do_wipe_dry"}
                \/ op \in {"step_back", "do_wipe"} /\ ctx = "probed"
                \/ op \in FilterOps \cup {"set_device"} /\ rc = 0
        prev == IF ctx = "loop" THEN (IF h.op = "do_probe" THEN Pos(p) ELSE NoPos)
                ELSE IF ctx = "probed" THEN Pos(p)
                ELSE IF ctx \in {"step", "wipe"} THEN h.prev
                ELSE NoPos
    IN  IF ~keep THEN NoCall
        ELSE [op |-> op, rc |-> rc,
              calls |-> IF op = "do_safeprobe" \/ ctx \in {"filter", "step"}
                        THEN calls ELSE <<>>,
              ctx |-> ctx, prev |-> prev,
              pure |-> \/ op = "reset_probe"
                       \/ op = "set_device"
                       \/ op = "do_probe" /\ rc = 0 /\ h.pure]

----------------------------------------------------------------------------
(* The devices and the configurations of the iteration specification *)

Device(mode, size, data, topo, lvm) ==
    [mode |-> mode, size |-> size, data |-> data, topo |-> topo, rdev |-> 8,
     lvm_private |-> lvm, cdrom |-> FALSE, size_fails |-> FALSE]

\* the signatures of image x, written for a probing area that begins at base
ImgExt(base)  == {Sig(base + 1080, 1, 2), Sig(base + 3128, 1, 2)}
ImgLvm(base)  == {Sig(base + 536, 2, 8)}
ImgDos(base)  == {Sig(base + 510, 3, 2)}
ImgGpt(base)  == {Sig(base + 1536, 4, 8)}

Devices ==
    { Device("REG", 16384, ImgExt(0) \cup ImgLvm(0) \cup ImgDos(0), {1}, FALSE),
      Device("REG", 16384, ImgExt(4096) \cup ImgGpt(4096), {0}, FALSE),
      Device("BLK", 16384, ImgExt(0), {}, TRUE) }

\* the probing areas blkid_probe_set_device() is called with: <<off, size>>
Areas == { <<0, 0>>, <<4096, 0>> }

Configs ==
    { [en |-> {0}, fl |-> {"MAGIC"}, probeoff |-> {}],
      [en |-> {0, 1, 2}, fl |-> {"MAGIC"}, probeoff |-> {}],
      [en |-> {0, 2}, fl |-> {}, probeoff |-> {"ext"}] }

FilterArgs == { <<"ONLYIN", {"lvm", "gpt"}>> }

\* the chains the filter functions and the binary interface are called for
FilterChains == {BLKID_CHAIN_SUBLKS, BLKID_CHAIN_TOPLGY}

IO == {"ok", "fail"}

----------------------------------------------------------------------------
(* The state machine: one action per public function *)

Init ==
    /\ \E cf \in Configs :
          pr = probe_configure(blkid_new_probe(cf.probeoff), cf.en, cf.fl)
    /\ dev \in Devices
    /\ pc = "ready"
    /\ hist = NoCall

\* what a probing call leaves behind
Probed(op, r) ==
    /\ pr' = r.pr
    /\ pc' = IF r.abrt THEN "aborted" ELSE IF r.hang THEN "hung" ELSE "ready"
    /\ hist' = Call(hist, pr, op, r.rc, r.calls)
    /\ UNCHANGED dev

DoProbe ==
    /\ pc = "ready"
    /\ Probed("do_probe", blkid_do_probe(pr, dev, "ok"))

DoSafeprobe ==
    /\ pc = "ready"
    /\ \E io \in IO : Probed("do_safeprobe", blkid_do_safeprobe(pr, dev, io))

DoFullprobe ==
    /\ pc = "ready"
    /\ Probed("do_fullprobe", blkid_do_fullprobe(pr, dev, "ok"))

StepBack ==
    /\ pc = "ready"
    /\ LET r == blkid_probe_step_back(pr)
       IN  /\ pr' = r.pr
           /\ hist' = Call(hist, pr, "step_back", r.rc, <<>>)
    /\ UNCHANGED <<dev, pc>>

DoWipe ==
    /\ pc = "ready"
    /\ \E dryrun \in BOOLEAN :
          LET r == blkid_do_wipe(pr, dev, dryrun, "ok")
          IN  /\ pr' = r.pr
              /\ dev' = r.dev
              /\ hist' = Call(hist, pr, IF dryrun THEN "do_wipe_dry" ELSE "do_wipe",
                              r.rc, <<>>)
    /\ UNCHANGED pc

ResetProbe ==
    /\ pc = "ready"
    /\ pr' = blkid_reset_probe(pr)
    /\ hist' = Call(hist, pr, "reset_probe", 0, <<>>)
    /\ UNCHANGED <<dev, pc>>

FilterTypes ==
    /\ pc = "ready"
    /\ \E chain \in FilterChains, fa \in FilterArgs :
          LET r == blkid_probe_filter_types(pr, chain, fa[1], fa[2])
          IN  /\ pr' = r.pr
              /\ hist' = Call(hist, pr, "filter_types", r.rc, <<>>)
    /\ UNCHANGED <<dev, pc>>

InvertFilter ==
    /\ pc = "ready"
    /\ \E chain \in FilterChains :
          LET r == blkid_probe_invert_filter(pr, chain)
          IN  /\ pr' = r.pr
              /\ hist' = Call(hist, pr, "invert_filter", r.rc, <<>>)
    /\ UNCHANGED <<dev, pc>>

ResetFilter ==
    /\ pc = "ready"
    /\ \E chain \in FilterChains :
          LET r == blkid_probe_reset_filter(pr, chain)
          IN  /\ pr' = r.pr
              /\ hist' = Call(hist, pr, "reset_filter", r.rc, <<>>)
    /\ UNCHANGED <<dev, pc>>

GetBinaryData ==
    /\ pc = "ready"
    /\ \E chain \in FilterChains :
          LET done(r) ==
                  /\ pr' = r.pr
                  /\ pc' = IF r.abrt THEN "aborted" ELSE "ready"
                  /\ hist' = Call(hist, pr, "get_binary_data", r.rc, <<>>)
          IN  done(blkid_probe_get_binary_data(pr, dev, chain, "ok"))
    /\ UNCHANGED dev

SetDevice ==
    /\ pc = "ready"
    /\ \E a \in Areas :
          LET r == blkid_probe_set_device(pr, 3, a[1], a[2], dev)
          IN  /\ pr' = r.pr
              /\ hist' = Call(hist, pr, "set_device", r.rc, <<>>)
    /\ UNCHANGED <<dev, pc>>

Next ==
    \/ DoProbe
    \/ DoSafeprobe
    \/ DoFullprobe
    \/ StepBack
    \/ DoWipe
    \/ ResetProbe
    \/ FilterTypes
    \/ InvertFilter
    \/ ResetFilter
    \/ GetBinaryData
    \/ SetDevice

Spec == Init /\ [][Next]_vars

----------------------------------------------------------------------------
(* Properties of the iteration specification Spec *)

\* descriptor i of chain c is one that probing reports on device dv through
\* prober p: the chain is enabled and has something to read, the descriptor
\* is not filtered out, one of its magics is on the device (or, without
\* magics, its probing function finds what it asks the kernel for)
MatchAt(p, dv, c, i) ==
    /\ p.chains[c].enabled
    /\ p.size # 0
    /\ ~(p.chains[c].fltr_alloc /\ i \in p.chains[c].fltr)
    /\ blkid_probe_get_idmag(p, dv, idinfo(c, i), "ok").rc = BLKID_PROBE_OK
    /\ (idinfo(c, i).magics # <<>> \/ i \in dv.topo)

\* position <<c1, i1>> comes before <<c2, i2>> in chain and descriptor order
Before(c1, i1, c2, i2) == c1 < c2 \/ (c1 = c2 /\ i1 < i2)

Descriptors == {d \in Chains \X (0 .. 1) : d[2] < nidinfos(d[1])}

\* a do_probe of an unbroken loop on a freshly reset prober just returned
InLoop == pc = "ready" /\ hist.op = "do_probe" /\ hist.ctx = "loop"

\* what the loop has to deliver: a match is a matching descriptor, it comes
\* after the previous match of the loop, and no matching descriptor between
\* the previous match (or the start) and this match (or the end) is left out
LoopInOrder ==
    LET to == Pos(pr)
        from == hist.prev
    IN  /\ hist.rc \in {0, 1}
        /\ hist.rc = 0 => /\ to.cur # NoChain
                          /\ MatchAt(pr, dev, to.cur, to.idx)
                          /\ from.cur # NoChain
                                => Before(from.cur, from.idx, to.cur, to.idx)
        /\ \A d \in Descriptors :
              /\ from.cur # NoChain => Before(from.cur, from.idx, d[1], d[2])
              /\ hist.rc = 0 => Before(d[1], d[2], to.cur, to.idx)
              => ~MatchAt(pr, dev, d[1], d[2])

\* the driver calls of a walk: chains in ascending order, each one enabled
WalkInOrder(cs) ==
    /\ \A k \in DOMAIN cs : pr.chains[cs[k][1]].enabled
    /\ \A j, k \in DOMAIN cs : j < k => cs[j][1] < cs[k][1]

\* the aggregation of do_safeprobe over the driver calls cs it made
SafeprobeAggregates(cs) ==
    LET neg == {k \in DOMAIN cs : cs[k][2] < 0}
        walked == {cs[k][1] : k \in DOMAIN cs}
        enabled == {c \in Chains : pr.chains[c].enabled}
    IN  /\ WalkInOrder(cs)
        /\ neg = {} => /\ walked = enabled
                       /\ hist.rc = IF \E k \in DOMAIN cs : cs[k][2] = 0 THEN 0 ELSE 1
        /\ neg # {} => /\ neg = {Len(cs)}
                       /\ walked = {c \in enabled : c <= cs[Len(cs)][1]}
                       /\ hist.rc = cs[Len(cs)][2]
        /\ pr.cur_chain = NoChain
        /\ \A c \in walked : pr.chains[c].idx = -1

\* C1: after any sequence of public prober operations every chain's idx is
\* at least -1 and at most nidinfos - 1; step_back never moves it below -1.
C1_IdxInRange ==
    \A c \in Chains : -1 <= pr.chains[c].idx /\ pr.chains[c].idx <= nidinfos(c) - 1

\* a step_back from descriptor 0 of the partitions chain rewound the chain
\* pointer to a chain whose idx is -1 already: the next step_back meets the
\* test that keeps idx from falling below -1
C1_Witness ==
    /\ hist.op = "step_back"
    /\ hist.prev.cur = BLKID_CHAIN_PARTS /\ hist.prev.idx = 0
    /\ pr.cur_chain = BLKID_CHAIN_TOPLGY
    /\ pr.chains[BLKID_CHAIN_TOPLGY].idx = -1

\* C2 as stated: in a loop of do_probe calls on a freshly reset prober the
\* matches come in chain order and, within a chain, in descriptor order; no
\* matching descriptor of an enabled chain is skipped and nothing is visited
\* twice.
C2_LoopInOrder_AsStated == InLoop => LoopInOrder

\* C2, amended: the same for a prober whose device is not flagged NOSCAN_DEV;
\* on a NOSCAN_DEV device every do_probe returns 1 and probes nothing.
C2_LoopInOrder ==
    InLoop => IF "NOSCAN_DEV" \in pr.flags
              THEN hist.rc = 1 /\ pr.values = <<>>
              ELSE LoopInOrder

\* the loop returned the second descriptor of the superblocks chain after
\* the first one, on a device that is scanned
C2_Witness ==
    /\ InLoop /\ hist.rc = 0
    /\ "NOSCAN_DEV" \notin pr.flags
    /\ hist.prev.cur = BLKID_CHAIN_SUBLKS /\ hist.prev.idx = 0
    /\ pr.cur_chain = BLKID_CHAIN_SUBLKS /\ pr.chains[BLKID_CHAIN_SUBLKS].idx = 1

\* C3: after a filter function (filter_types, invert, reset) returned 0 at
\* any point of an iteration, the next do_probe starts from scratch: its
\* first driver call is for the first enabled chain and every chain it
\* probes is probed from its first descriptor.
C3_FilterRestarts ==
    pc = "ready" /\ hist.op = "do_probe" /\ hist.ctx = "filter"
    => /\ \A k \in DOMAIN hist.calls : hist.calls[k][2] = 0
       /\ hist.calls # <<>>
             => \A c \in Chains : c < hist.calls[1][1] => ~pr.chains[c].enabled

\* C4: when do_probe returned success at descriptor i of chain c, then after
\* one step_back the next do_probe calls the probing function of chain c
\* again, starting at descriptor i, and calls no later chain before.
C4_StepBackRetries ==
    pc = "ready" /\ hist.op = "do_probe" /\ hist.ctx = "step"
    => \E k \in DOMAIN hist.calls :
          /\ hist.calls[k] = <<hist.prev.cur, hist.prev.idx>>
          /\ \A j \in 1 .. (k - 1) : hist.calls[j][1] < hist.prev.cur

\* C5: in the loop while (do_probe == 0) do_wipe(FALSE), a do_wipe(FALSE)
\* that returned 0 has erased the signature do_probe reported, and the next
\* do_probe does not report that signature (same descriptor, same offset)
\* again.
C5_WipeTerminates ==
    /\ pc = "ready" /\ hist.op = "do_wipe" /\ hist.prev.moff # -1
          => ~\E s \in dev.data : s.off = pr.off + hist.prev.moff
    /\ pc = "ready" /\ hist.op = "do_probe" /\ hist.ctx = "wipe" /\ hist.rc = 0
          => Pos(pr) # hist.prev

----------------------------------------------------------------------------
(* The buffer specification SpecBuf: a prober whose probing area is set by   *)
(* blkid_probe_set_device() and blkid_probe_set_dimension() and whose cache  *)
(* is filled by blkid_probe_get_buffer().                                    *)

\* the devices: a 4 MiB image file, an 8 MiB block device, a character device
BufDevices ==
    { Device("REG", 4194304, {}, {}, FALSE),
      Device("BLK", 8388608, {}, {}, FALSE),
      Device("CHR", 0, {}, {}, FALSE) }

\* the <<off, size>> blkid_probe_set_device() is called with
BufAreas ==
    { <<0, 0>>, <<1048576, 524288>>, <<4198400, 0>>, <<0, 16777216>> }

\* the <<off, size>> blkid_probe_set_dimension() is called with
BufDims == { <<2097152, 1048576>>, <<0, 8392704>> }

\* the offsets and lengths blkid_probe_get_buffer() is asked for
BufOffs == {0, 1024, 1048576, 3145728}
BufLens == {0, 1, 1024, 2097152}

\* the ghost record of the buffer specification: the last call with its
\* arguments and its result (buf, bf: what get_buffer returned and the cache
\* range behind it); open says that the last set_device returned 0; errno
\* and added are what get_buffer left in errno and whether it put a range
\* into the cache
BufCall(op, rc, off, len, buf, bf, open, errno, added) ==
    [op |-> op, rc |-> rc, off |-> off, len |-> len, buf |-> buf, bf |-> bf,
     open |-> open, errno |-> errno, added |-> added]

InitBuf ==
    /\ pr = blkid_new_probe({})
    /\ dev \in BufDevices
    /\ pc = "ready"
    /\ hist = BufCall("none", 0, 0, 0, FALSE, Buf(0, 0), FALSE, 0, FALSE)

SetArea ==
    /\ pc = "ready"
    /\ \E a \in BufAreas :
          LET r == blkid_probe_set_device(pr, 3, a[1], a[2], dev)
          IN  /\ pr' = r.pr
              /\ hist' = BufCall("set_device", r.rc, a[1], a[2], FALSE, Buf(0, 0),
                                 r.rc = 0, 0, FALSE)
    /\ UNCHANGED <<dev, pc>>

SetDimension ==
    /\ pc = "ready"
    /\ hist.open
    /\ \E a \in BufDims :
          /\ pr' = blkid_probe_set_dimension(pr, a[1], a[2])
          /\ hist' = BufCall("set_dimension", 0, a[1], a[2], FALSE, Buf(0, 0), TRUE,
                             0, FALSE)
    /\ UNCHANGED <<dev, pc>>

GetBuffer ==
    /\ pc = "ready"
    /\ hist.open
    /\ \E off \in BufOffs, len \in BufLens, io \in IO :
          LET done(r) ==
                  /\ Len(r.pr.buffers) <= MaxBufs
                  /\ pr' = r.pr
                  /\ pc' = IF r.abrt THEN "aborted" ELSE "ready"
                  /\ hist' = BufCall("get_buffer", IF r.buf THEN 0 ELSE -1, off, len,
                                     r.buf, r.bf, TRUE, r.errno,
                                     r.pr.buffers # pr.buffers)
          IN  done(blkid_probe_get_buffer(pr, off, len, io))
    /\ UNCHANGED dev

NextBuf ==
    \/ SetArea
    \/ SetDimension
    \/ GetBuffer

SpecBuf == InitBuf /\ [][NextBuf]_vars

(* Properties of the buffer specification SpecBuf *)

\* the size blkid_probe_set_device() takes for the device
DevSiz(dv) == IF dv.mode = "CHR" THEN 1 ELSE dv.size

\* C7: for every probing window and every request get(off, len) inside it,
\* the cache range r that serves the request begins at or before
\* window.off + off and ends at or after window.off + off + len, and no
\* assert() of mmap_buffer() or blkid_probe_get_buffer() fails.
C7_BufferCovers ==
    /\ pc # "aborted"
    /\ hist.op = "get_buffer" /\ hist.buf
          => /\ hist.bf.off <= pr.off + hist.off
             /\ hist.bf.off + hist.bf.len >= pr.off + hist.off + hist.len

\* C8: blkid_probe_set_device(pr, fd, off, size) returns -1 whenever off is
\* greater than the size of the device, whatever size is (0 included).
C8_SetDeviceRejects ==
    hist.op = "set_device" /\ hist.off > DevSiz(dev) => hist.rc = -1

\* C9: after a set_device or a set_dimension that returned 0 the probing
\* window ends inside the device: off + size <= the size of the device.
C9_WindowInsideDevice ==
    hist.op \in {"set_device", "set_dimension"} /\ hist.rc = 0
    => pr.off + pr.size <= DevSiz(dev)

----------------------------------------------------------------------------
(* The value specification SpecValues: the calls a probing function makes    *)
(* on the value list while its chain is the current one, between the probes  *)
(* that put the chain's own values on the list.                              *)

\* the names blkid_probe_set_value() is called with
ValueNames == {"LABEL", "SBMAGIC"}

\* the checksums blkid_probe_verify_csum() compares with the expected 1
Csums == {0, 1}

\* the chain flags of the probers of the value specification
ValueFlags == { {"MAGIC", "BADCSUM"}, {"BADCSUM"}, {} }

InitValues ==
    /\ \E fl \in ValueFlags :
          pr = probe_configure(blkid_new_probe({}),
                               {BLKID_CHAIN_SUBLKS, BLKID_CHAIN_PARTS}, fl)
    /\ dev = Device("REG", 16384, ImgExt(0) \cup ImgDos(0), {}, FALSE)
    /\ pc = "ready"
    /\ hist = NoCall

\* a probing function is running and the list has room for k more values
Setting(k) ==
    /\ pc = "ready"
    /\ pr.cur_chain # NoChain
    /\ Len(pr.values) + k <= MaxValues

\* what a call on the value list leaves behind
ValueSet(op, p, rc) ==
    /\ pr' = p
    /\ hist' = [NoCall EXCEPT !.op = op, !.rc = rc]
    /\ UNCHANGED <<dev, pc>>

OpenDevice ==
    /\ pc = "ready"
    /\ LET r == blkid_probe_set_device(pr, 3, 0, 0, dev)
       IN  ValueSet("set_device", r.pr, r.rc)

ProbeValues ==
    /\ pc = "ready"
    /\ pr.fd = 3
    /\ LET done(r) == ValueSet("do_probe", r.pr, r.rc)
       IN  done(blkid_do_probe(pr, dev, "ok"))

SetValue ==
    /\ Setting(1)
    /\ \E name \in ValueNames :
          ValueSet("set_value", blkid_probe_set_value(pr, name, <<7>>, 1), 0)

SprintfValue ==
    /\ Setting(1)
    /\ \E n \in {0, 1080} :
          ValueSet("sprintf_value",
                   blkid_probe_sprintf_value(pr, "SBMAGIC_OFFSET", n), 0)

SetMagic ==
    /\ Setting(2)
    /\ ValueSet("set_magic", blkid_probe_set_magic(pr, 1080, 2, 1), 0)

VerifyCsum ==
    /\ Setting(1)
    /\ \E csum \in Csums :
          LET r == blkid_probe_verify_csum(pr, csum, 1)
          IN  ValueSet("verify_csum", r.pr, r.rc)

ResetValues ==
    /\ pc = "ready"
    /\ ValueSet("reset_probe", blkid_reset_probe(pr), 0)

NextValues ==
    \/ OpenDevice
    \/ ProbeValues
    \/ SetValue
    \/ SprintfValue
    \/ SetMagic
    \/ VerifyCsum
    \/ ResetValues

SpecValues == InitValues /\ [][NextValues]_vars

(* Properties of the value specification SpecValues *)

\* C6: no two values on the list share a name, whatever sequence of
\* set_value, sprintf_value, set_magic, verify_csum calls and probes made
\* the list.
C6_UniqueNames ==
    \A j, k \in DOMAIN pr.values :
        j # k => pr.values[j].name # pr.values[k].name

----------------------------------------------------------------------------
(* Further properties of the iteration specification Spec *)

FirstProbe == hist.op = "do_probe" /\ hist.ctx = "loop" /\ hist.prev = NoPos

\* no descriptor of an enabled chain matches on the device
NothingMatches == \A d \in Descriptors : ~MatchAt(pr, dev, d[1], d[2])

\* C12: on a device on which no descriptor of any enabled chain matches, the
\* first do_probe on a fresh prober returns 1 (done), leaves the value list
\* empty and leaves cur_chain unset.
C12_NothingFound ==
    FirstProbe /\ NothingMatches
        => /\ pc = "ready"
           /\ hist.rc = 1
           /\ pr.values = <<>>
           /\ pr.cur_chain = NoChain

\* a first do_probe walked the enabled chains of a device that is scanned
\* and found nothing
C12_Witness ==
    /\ FirstProbe /\ NothingMatches
    /\ pc = "ready" /\ hist.rc = 1
    /\ pr.size # 0 /\ "NOSCAN_DEV" \notin pr.flags
    /\ \E c \in Chains : pr.chains[c].enabled

----------------------------------------------------------------------------
(* Further properties of the buffer specification SpecBuf *)

\* the last call was a get_buffer for no byte at all or for bytes beyond the
\* end of the probing area
OutOfArea ==
    /\ hist.op = "get_buffer"
    /\ \/ hist.len = 0
       \/ pr.off + hist.off + hist.len > pr.off + pr.size

----------------------------------------------------------------------------
(* The mount table of libmount (tab.c).  The table specification SpecTab    *)
(* keeps the heap (the table, the list nodes, the entries' counters, the    *)
(* caller's iterator) in the variable pr and the system the table is about  *)
(* (the entries' fields, symlinks, tags, loop devices) in the variable dev. *)

\* the entries the caller has allocated with mnt_new_fs()
Fss == {1, 2, 3}

\* the list node &tb->ents; the node &fs->ents of entry fs is fs itself
TbEnts == 0

Nodes == {TbEnts} \cup Fss

\* a NULL struct libmnt_fs pointer
NoFs == -1

\* a NULL string
NULL == "(null)"

\* the entries a table may count before the caller stops adding
MaxEnts == 4

\* the steps after which a loop over the list has seen every node it can
\* reach: a loop that is still running then runs for ever
Fuel == Cardinality(Fss) + 1

(* list.h *)

INIT_LIST_HEAD(h, n) == [h EXCEPT !.next[n] = n, !.prev[n] = n]

\* list_add_tail(): __list_add(add, head->prev, head), store by store
list_add_tail(h, add, head) ==
    LET prev == h.prev[head]
        h1 == [h EXCEPT !.prev[head] = add]
        h2 == [h1 EXCEPT !.next[add] = head]
        h3 == [h2 EXCEPT !.prev[add] = prev]
    IN  [h3 EXCEPT !.next[prev] = add]

\* list_del(): __list_del(entry->prev, entry->next), store by store
list_del(h, entry) ==
    LET prev == h.prev[entry]
        next == h.next[entry]
        h1 == [h EXCEPT !.prev[next] = prev]
    IN  [h1 EXCEPT !.next[prev] = next]

list_empty(h, head) == h.next[head] = head

(* struct libmnt_fs: reference counter and list node *)

\* the entry was deallocated: every later use of it is a use after free
Freed(h, fs) == h.fs[fs].refcount <= 0

mnt_ref_fs(h, fs) == [h EXCEPT !.fs[fs].refcount = @ + 1]

\* mnt_free_fs(): the entry leaves the list it is on and is deallocated
mnt_free_fs(h, fs) == list_del(h, fs)

\* mnt_unref_fs(): on zero the entry is deallocated
mnt_unref_fs(h, fs) ==
    LET h1 == [h EXCEPT !.fs[fs].refcount = @ - 1]
    IN  IF h1.fs[fs].refcount <= 0 THEN mnt_free_fs(h1, fs) ELSE h1

(* struct libmnt_iter *)

\* MNT_ITER_FORWARD and MNT_ITER_BACKWARD
Directions == {"FORWARD", "BACKWARD"}

\* mnt_reset_iter(): memset() and the direction
mnt_reset_iter(direction) == [direction |-> direction, head |-> FALSE, p |-> TbEnts]

\* an iterator that MNT_ITER_INIT() has set up and that stands at node p
IterAt(direction, p) == [direction |-> direction, head |-> TRUE, p |-> p]

(* The table *)

\* mnt_new_table(): an empty list, no entry counted; cache says whether
\* mnt_table_set_cache() gave the table a cache
mnt_new_table(cache, fs) ==
    [nents |-> 0, cache |-> cache,
     next |-> [n \in Nodes |-> n], prev |-> [n \in Nodes |-> n],
     fs |-> fs, itr |-> mnt_reset_iter("FORWARD")]

\* mnt_table_add_fs(): [h, rc]
mnt_table_add_fs(h, fs) ==
    LET h1 == list_add_tail(mnt_ref_fs(h, fs), fs, TbEnts)
    IN  [h |-> [h1 EXCEPT !.nents = @ + 1], rc |-> 0]

\* mnt_table_remove_fs(): [h, rc]
mnt_table_remove_fs(h, fs) ==
    LET h1 == INIT_LIST_HEAD(list_del(h, fs), fs)
        h2 == mnt_unref_fs(h1, fs)
    IN  [h |-> [h2 EXCEPT !.nents = @ - 1], rc |-> 0]

RECURSIVE reset_table_loop(_, _)
\* the while (!list_empty()) loop of mnt_reset_table(); [h, hang, uaf]
reset_table_loop(h, fuel) ==
    LET fs == h.next[TbEnts]
    IN  IF list_empty(h, TbEnts) THEN [h |-> h, hang |-> FALSE, uaf |-> FALSE]
        ELSE IF Freed(h, fs) THEN [h |-> h, hang |-> FALSE, uaf |-> TRUE]
        ELSE IF fuel = 0 THEN [h |-> h, hang |-> TRUE, uaf |-> FALSE]
        ELSE reset_table_loop(mnt_table_remove_fs(h, fs).h, fuel - 1)

\* mnt_reset_table(): [h, rc, hang, uaf]
mnt_reset_table(h) ==
    LET emptied(r) ==
            [h |-> IF r.hang \/ r.uaf THEN r.h ELSE [r.h EXCEPT !.nents = 0],
             rc |-> 0, hang |-> r.hang, uaf |-> r.uaf]
    IN  emptied(reset_table_loop(h, MaxEnts + Fuel))

\* a faulty mnt_table_next_fs() that follows the next pointers whatever the
\* direction of the iterator is: with it a backward walk gives the entries
\* oldest first and C15_IterationOrder fails
next_fs_always_forward(h, itr) ==
    LET i1 == IF itr.head THEN itr ELSE IterAt(itr.direction, h.next[TbEnts])
    IN  IF i1.p # TbEnts
        THEN [itr |-> [i1 EXCEPT !.p = h.next[i1.p]], fs |-> i1.p, rc |-> 0]
        ELSE [itr |-> i1, fs |-> NoFs, rc |-> 1]

\* MNT_ITER_INIT() and MNT_ITER_ITERATE() of mountP.h inside
\* mnt_table_next_fs(): [itr, fs, rc]
mnt_table_next_fs(h, itr) ==
    LET forward == itr.direction = "FORWARD"
        i1 == IF itr.head THEN itr
              ELSE IterAt(itr.direction,
                          IF forward THEN h.next[TbEnts] ELSE h.prev[TbEnts])
    IN  IF i1.p # TbEnts
        THEN [itr |-> [i1 EXCEPT !.p = IF forward THEN h.next[i1.p]
                                       ELSE h.prev[i1.p]],
              fs |-> i1.p, rc |-> 0]
        ELSE [itr |-> i1, fs |-> NoFs, rc |-> 1]

RECURSIVE iterate(_, _, _, _)
\* the entries a while (mnt_table_next_fs() == 0) loop that leaves the list
\* alone is given, one after the other: [ents, hang, uaf]
iterate(h, itr, seen, fuel) ==
    LET stepped(r) ==
            IF r.rc # 0 THEN [ents |-> seen, hang |-> FALSE, uaf |-> FALSE]
            ELSE IF Freed(h, r.fs) THEN [ents |-> seen, hang |-> FALSE, uaf |-> TRUE]
            ELSE IF fuel = 0 THEN [ents |-> seen, hang |-> TRUE, uaf |-> FALSE]
            ELSE iterate(h, r.itr, Append(seen, r.fs), fuel - 1)
    IN  stepped(mnt_table_next_fs(h, itr))

\* mnt_reset_iter() and the loop
EntriesOf(h, direction) == iterate(h, mnt_reset_iter(direction), <<>>, Fuel)

\* list_first_entry(&tb->ents): on an empty list the head itself
list_first_entry(h) == h.next[TbEnts]

(* Strings *)

\* strchr(): the first position of character c in s, 0 when there is none
strchr(s, c) ==
    LET at == {i \in 1 .. Len(s) : SubSeq(s, i, i) = c}
    IN  IF at = {} THEN 0 ELSE CHOOSE i \in at : \A j \in at : i <= j

\* strrchr(): the last position of character c in s, 0 when there is none
strrchr(s, c) ==
    LET at == {i \in 1 .. Len(s) : SubSeq(s, i, i) = c}
    IN  IF at = {} THEN 0 ELSE CHOOSE i \in at : \A j \in at : i >= j

\* startswith(): prefix is at the beginning of s
startswith(s, prefix) ==
    Len(prefix) <= Len(s) /\ SubSeq(s, 1, Len(prefix)) = prefix

\* blkid_parse_tag_string() for a token without quotes: [rc, name, value]
blkid_parse_tag_string(token) ==
    LET cp == IF token = NULL THEN 0 ELSE strchr(token, "=")
    IN  IF cp = 0 \/ cp = Len(token) THEN [rc |-> -1, name |-> NULL, value |-> NULL]
        ELSE [rc |-> 0, name |-> SubSeq(token, 1, cp - 1),
              value |-> SubSeq(token, cp + 1, Len(token))]

\* mnt_valid_tagname()
mnt_valid_tagname(t) == t \in {"UUID", "LABEL", "PARTUUID", "PARTLABEL"}

(* struct libmnt_fs: the fields a parser fills in *)

\* an entry with its source, target, type, mountinfo fields and options;
\* mnt_fs_set_source() splits a source that is a tag into name and value
Fs(source, target, fstype, root, devno, id, parent, flags, opts) ==
    LET tagged(t) ==
            [source |-> source, target |-> target, fstype |-> fstype, root |-> root,
             devno |-> devno, id |-> id, parent |-> parent, flags |-> flags,
             opts |-> opts,
             tagname |-> IF t.rc = 0 /\ mnt_valid_tagname(t.name) THEN t.name ELSE NULL,
             tagval |-> IF t.rc = 0 /\ mnt_valid_tagname(t.name) THEN t.value ELSE NULL]
    IN  tagged(blkid_parse_tag_string(source))

mnt_fs_get_source(f) == f.source
mnt_fs_get_target(f) == f.target
mnt_fs_get_fstype(f) == f.fstype
mnt_fs_get_root(f) == f.root
mnt_fs_get_devno(f) == f.devno
mnt_fs_get_id(f) == f.id

\* mnt_fs_get_srcpath(): the source unless it is a tag
mnt_fs_get_srcpath(f) == IF f.tagname # NULL THEN NULL ELSE f.source

\* mnt_fs_get_tag(): 0 when the entry has a tag
mnt_fs_get_tag(f) == IF f.tagname # NULL THEN 0 ELSE -1

mnt_fs_is_kernel(f) == "KERNEL" \in f.flags
mnt_fs_is_swaparea(f) == f.fstype = "swap"
mnt_fs_is_pseudofs(f) == f.fstype \in {"proc", "sysfs", "tmpfs", "none"}
mnt_fs_is_netfs(f) == f.fstype \in {"nfs", "cifs"}

\* mnt_fs_get_option(): 0 when option name is among the entry's options;
\* an option is <<name, value>>
mnt_fs_get_option(f, name) ==
    IF \E o \in f.opts : o[1] = name THEN 0 ELSE 1

mnt_fs_option_value(f, name) == (CHOOSE o \in f.opts : o[1] = name)[2]

\* mnt_fs_streq_target(): the comparison of the native target with path
mnt_fs_streq_target(f, path) == f.target # NULL /\ path # NULL /\ f.target = path

\* mnt_fs_streq_srcpath(): the comparison of the native source path with path
mnt_fs_streq_srcpath(f, path) ==
    LET p == mnt_fs_get_srcpath(f)
    IN  IF p = NULL /\ path = NULL THEN TRUE ELSE p # NULL /\ path # NULL /\ p = path

\* the entry fs of system sys with the parent ID the heap holds for it
FsOf(h, sys, fs) == [sys.fs[fs] EXCEPT !.parent = h.fs[fs].parent]

(* De-duplication *)

\* is_mountinfo() of a table that is not empty
is_mountinfo(h, sys) ==
    LET f == sys.fs[list_first_entry(h)]
    IN  mnt_fs_is_kernel(f) /\ mnt_fs_get_root(f) # NULL

\* test_uniq_cmp(): 0 when the two entries have the same target
test_uniq_cmp(a, b) == IF mnt_fs_streq_target(a, mnt_fs_get_target(b)) THEN 0 ELSE 1

\* a comparison by file system type, 0 for equal
fstype_cmp(a, b) == IF a.fstype = b.fstype THEN 0 ELSE 1

\* the comparison functions mnt_table_uniq_fs() is called with
Cmps == {"target", "fstype"}

cmp(name, a, b) == IF name = "target" THEN test_uniq_cmp(a, b) ELSE fstype_cmp(a, b)

\* mnt_table_move_parent(): [h, hang, uaf]
mnt_table_move_parent(h, oldid, newid) ==
    LET moved(w) ==
            [h |-> [h EXCEPT !.fs = [fs \in Fss |->
                        IF (\E k \in DOMAIN w.ents : w.ents[k] = fs)
                           /\ h.fs[fs].parent = oldid
                        THEN [h.fs[fs] EXCEPT !.parent = newid] ELSE h.fs[fs]]],
             hang |-> w.hang, uaf |-> w.uaf]
    IN  IF list_empty(h, TbEnts) THEN [h |-> h, hang |-> FALSE, uaf |-> FALSE]
        ELSE moved(EntriesOf(h, "FORWARD"))

\* the inner loop of mnt_table_uniq_fs() over the entries w that come before
\* fs in the direction of the walk: want, or that the loop never ends
uniq_want(sys, w, fs, cmpname) ==
    LET stop == {k \in DOMAIN w.ents :
                    \/ w.ents[k] = fs
                    \/ cmp(cmpname, sys.fs[w.ents[k]], sys.fs[fs]) = 0}
        k0 == CHOOSE k \in stop : \A j \in stop : k <= j
    IN  IF stop = {} THEN [want |-> TRUE, hang |-> w.hang, uaf |-> w.uaf]
        ELSE [want |-> w.ents[k0] = fs, hang |-> FALSE, uaf |-> FALSE]

\* a faulty de-duplication that removes nothing: with it duplicates stay in
\* the table and C16_UniqKeepsOne fails
uniq_fs_keeps_all(h, sys, flags, cmpname) ==
    [h |-> h, rc |-> 0, hang |-> FALSE, uaf |-> FALSE, removed |-> <<>>]

RECURSIVE uniq_fs_loop(_, _, _, _, _, _, _, _)
\* the outer loop of mnt_table_uniq_fs(); removed lists the entries that
\* mnt_table_remove_fs() was called for
uniq_fs_loop(h, sys, itr, direction, keeptree, cmpname, removed, fuel) ==
    LET \* the body for the entry r that mnt_table_next_fs() returned
        dropped(r, m) ==
            IF m.hang \/ m.uaf
            THEN [h |-> m.h, rc |-> 0, hang |-> m.hang, uaf |-> m.uaf,
                  removed |-> removed]
            ELSE uniq_fs_loop(mnt_table_remove_fs(m.h, r.fs).h, sys, r.itr, direction,
                              keeptree, cmpname, Append(removed, r.fs), fuel - 1)
        wanted(r, x) ==
            IF x.hang \/ x.uaf
            THEN [h |-> h, rc |-> 0, hang |-> x.hang, uaf |-> x.uaf,
                  removed |-> removed]
            ELSE IF x.want
            THEN uniq_fs_loop(h, sys, r.itr, direction, keeptree, cmpname, removed,
                              fuel - 1)
            ELSE dropped(r, IF keeptree
                            THEN mnt_table_move_parent(h, mnt_fs_get_id(sys.fs[r.fs]),
                                                       h.fs[r.fs].parent)
                            ELSE [h |-> h, hang |-> FALSE, uaf |-> FALSE])
        body(r) ==
            IF r.rc # 0
            THEN [h |-> h, rc |-> 0, hang |-> FALSE, uaf |-> FALSE,
                  removed |-> removed]
            ELSE IF Freed(h, r.fs)
            THEN [h |-> h, rc |-> 0, hang |-> FALSE, uaf |-> TRUE, removed |-> removed]
            ELSE IF fuel = 0
            THEN [h |-> h, rc |-> 0, hang |-> TRUE, uaf |-> FALSE, removed |-> removed]
            ELSE wanted(r, uniq_want(sys, EntriesOf(h, direction), r.fs, cmpname))
    IN  body(mnt_table_next_fs(h, itr))

\* mnt_table_uniq_fs(): [h, rc, hang, uaf, removed]
mnt_table_uniq_fs(h, sys, flags, cmpname) ==
    LET direction == IF "FORWARD" \in flags THEN "FORWARD" ELSE "BACKWARD"
    IN  IF list_empty(h, TbEnts)
        THEN [h |-> h, rc |-> 0, hang |-> FALSE, uaf |-> FALSE, removed |-> <<>>]
        ELSE uniq_fs_loop(h, sys, mnt_reset_iter(direction), direction,
                          "KEEPTREE" \in flags /\ is_mountinfo(h, sys), cmpname,
                          <<>>, MaxEnts + Fuel)

(* The cache: canonical paths and evaluated tags *)

\* mnt_resolve_path(): the canonical form of path
mnt_resolve_path(sys, path) ==
    IF path = NULL THEN NULL
    ELSE IF \E l \in sys.links : l[1] = path
    THEN (CHOOSE l \in sys.links : l[1] = path)[2]
    ELSE path

\* mnt_resolve_target() of a cache without a table of mounted targets
mnt_resolve_target(sys, path) == mnt_resolve_path(sys, path)

\* mnt_resolve_tag(): the device the tag evaluates to, or NULL
mnt_resolve_tag(sys, tag, val) ==
    IF \E t \in sys.tags : t[1] = tag /\ t[2] = val
    THEN (CHOOSE t \in sys.tags : t[1] = tag /\ t[2] = val)[3]
    ELSE NULL

\* mnt_resolve_spec(): a tag is evaluated, a path is made canonical
mnt_resolve_spec(sys, spec) ==
    LET parsed(t) == IF t.rc = 0 /\ mnt_valid_tagname(t.name)
                     THEN mnt_resolve_tag(sys, t.name, t.value)
                     ELSE mnt_resolve_path(sys, spec)
    IN  IF spec = NULL THEN NULL ELSE parsed(blkid_parse_tag_string(spec))

\* mnt_cache_device_has_tag()
mnt_cache_device_has_tag(sys, devname, tag, val) == <<tag, val, devname>> \in sys.tags

\* mnt_cache_read_tags(): 0 when tags of the device were read, 1 when it has
\* none, -1 (with errno EACCES) when the device cannot be read
mnt_cache_read_tags(sys, devname) ==
    IF devname \in sys.noaccess THEN -1
    ELSE IF \E t \in sys.tags : t[3] = devname THEN 0
    ELSE 1

(* Lookups.  They walk a list that is the ring of the table's entries, as   *)
(* every table is to which entries were added once.                          *)

\* the first entry of ents that satisfies Match, or NULL: what a
\* while (mnt_table_next_fs() == 0) loop that returns on a match ends with
FirstFs(ents, Match(_)) ==
    LET at == {k \in DOMAIN ents : Match(ents[k])}
    IN  IF at = {} THEN NoFs ELSE ents[CHOOSE k \in at : \A j \in at : k <= j]

\* a faulty mnt_table_find_target() that looks for the canonical path first:
\* with it an entry that matches only after canonicalization wins over a
\* later native match and C17_NativeTargetFirst fails
find_target_canonical_first(h, sys, path, direction) ==
    LET ents == EntriesOf(h, direction).ents
        cn == IF h.cache THEN mnt_resolve_path(sys, path) ELSE path
    IN  IF path = NULL \/ path = "" THEN NoFs
        ELSE FirstFs(ents, LAMBDA fs : mnt_fs_streq_target(sys.fs[fs], cn))

\* mnt_table_find_target(): the entry, or NULL
mnt_table_find_target(h, sys, path, direction) ==
    LET ents == EntriesOf(h, direction).ents
        cn == mnt_resolve_path(sys, path)
        native == FirstFs(ents, LAMBDA fs : mnt_fs_streq_target(sys.fs[fs], path))
        canonical == FirstFs(ents, LAMBDA fs : mnt_fs_streq_target(sys.fs[fs], cn))
        both == FirstFs(ents, LAMBDA fs :
                    /\ sys.fs[fs].target # NULL
                    /\ ~mnt_fs_is_swaparea(sys.fs[fs])
                    /\ ~mnt_fs_is_kernel(sys.fs[fs])
                    /\ sys.fs[fs].target # "/"
                    /\ mnt_resolve_target(sys, sys.fs[fs].target) = cn)
    IN  IF path = NULL \/ path = "" \/ direction \notin Directions THEN NoFs
        ELSE IF native # NoFs THEN native
        ELSE IF ~h.cache \/ cn = NULL THEN NoFs
        ELSE IF canonical # NoFs THEN canonical
        ELSE both

\* the buffer mnt of mnt_table_find_mountpoint(): the string s in it and the
\* byte b1 at mnt + 1 ("" for the terminating zero), which is behind the end
\* of the string once the string is empty
MntBuf(path) ==
    [s |-> path, b1 |-> IF Len(path) >= 2 THEN SubSeq(path, 2, 2) ELSE ""]

\* stripoff_last_component(): the buffer cut at its last '/'; found = FALSE
\* when there is none
stripoff_last_component(mnt) ==
    LET p == strrchr(mnt.s, "/")
    IN  IF p = 0 THEN [mnt |-> mnt, found |-> FALSE]
        ELSE [mnt |-> [s |-> SubSeq(mnt.s, 1, p - 1),
                       b1 |-> IF p = 2 THEN "" ELSE mnt.b1],
              found |-> TRUE]

RECURSIVE find_mountpoint_loop(_, _, _, _)
\* the do { } while loop of mnt_table_find_mountpoint() and the lookup of
\* "/" behind it
find_mountpoint_loop(h, sys, mnt, direction) ==
    LET stripped(r) ==
            IF r.found /\ r.mnt.b1 # ""
            THEN find_mountpoint_loop(h, sys, r.mnt, direction)
            ELSE mnt_table_find_target(h, sys, "/", direction)
        found(fs) == IF fs # NoFs THEN fs ELSE stripped(stripoff_last_component(mnt))
    IN  found(mnt_table_find_target(h, sys, mnt.s, direction))

\* mnt_table_find_mountpoint(): the entry, or NULL
mnt_table_find_mountpoint(h, sys, path, direction) ==
    IF path = NULL \/ path = "" \/ direction \notin Directions THEN NoFs
    ELSE find_mountpoint_loop(h, sys, MntBuf(path), direction)

\* mnt_table_find_srcpath(): the entry, or NULL
mnt_table_find_srcpath(h, sys, path, direction) ==
    LET ents == EntriesOf(h, direction).ents
        native == FirstFs(ents, LAMBDA fs : mnt_fs_streq_srcpath(sys.fs[fs], path))
        ntags == Cardinality({k \in DOMAIN ents : mnt_fs_get_tag(sys.fs[ents[k]]) = 0})
        cn == mnt_resolve_path(sys, path)
        nents == h.nents
        canonical == FirstFs(ents, LAMBDA fs : mnt_fs_streq_srcpath(sys.fs[fs], cn))
        rc == mnt_cache_read_tags(sys, cn)
        bytags == FirstFs(ents, LAMBDA fs :
                      /\ mnt_fs_get_tag(sys.fs[fs]) = 0
                      /\ mnt_cache_device_has_tag(sys, cn, sys.fs[fs].tagname,
                                                  sys.fs[fs].tagval))
        evaluated == FirstFs(ents, LAMBDA fs :
                         /\ mnt_fs_get_tag(sys.fs[fs]) = 0
                         /\ mnt_resolve_tag(sys, sys.fs[fs].tagname,
                                            sys.fs[fs].tagval) = cn)
        tagged == IF rc = 0 THEN bytags ELSE IF rc < 0 THEN evaluated ELSE NoFs
        both == FirstFs(ents, LAMBDA fs :
                    /\ ~mnt_fs_is_netfs(sys.fs[fs])
                    /\ ~mnt_fs_is_pseudofs(sys.fs[fs])
                    /\ mnt_fs_get_srcpath(sys.fs[fs]) # NULL
                    /\ mnt_resolve_path(sys, mnt_fs_get_srcpath(sys.fs[fs])) = cn)
    IN  IF path = NULL \/ path = "" \/ direction \notin Directions THEN NoFs
        ELSE IF native # NoFs THEN native
        ELSE IF ~h.cache \/ cn = NULL THEN NoFs
        ELSE IF ntags < nents /\ canonical # NoFs THEN canonical
        ELSE IF ntags > 0 /\ tagged # NoFs THEN tagged
        ELSE IF ntags <= nents THEN both
        ELSE NoFs

\* mnt_table_find_tag(): the entry, or NULL
mnt_table_find_tag(h, sys, tag, val, direction) ==
    LET ents == EntriesOf(h, direction).ents
        literal == FirstFs(ents, LAMBDA fs :
                       /\ sys.fs[fs].tagname # NULL /\ sys.fs[fs].tagval # NULL
                       /\ sys.fs[fs].tagname = tag
                       /\ sys.fs[fs].tagval = val)
        cn == mnt_resolve_tag(sys, tag, val)
    IN  IF tag = NULL \/ tag = "" \/ val = NULL \/ direction \notin Directions
        THEN NoFs
        ELSE IF literal # NoFs THEN literal
        ELSE IF h.cache /\ cn # NULL THEN mnt_table_find_srcpath(h, sys, cn, direction)
        ELSE NoFs

\* a faulty mnt_table_find_source() that takes every source for a path: with
\* it a tag is never compared with the tags of the entries and
\* C19_SourceDispatch fails
find_source_as_path(h, sys, source, direction) ==
    mnt_table_find_srcpath(h, sys, source, direction)

\* mnt_table_find_source(): the entry, or NULL
mnt_table_find_source(h, sys, source, direction) ==
    LET parsed(t) ==
            IF t.rc # 0 \/ ~mnt_valid_tagname(t.name)
            THEN mnt_table_find_srcpath(h, sys, source, direction)
            ELSE mnt_table_find_tag(h, sys, t.name, t.value, direction)
    IN  IF direction \notin Directions THEN NoFs
        ELSE parsed(blkid_parse_tag_string(source))

(* Is an entry of fstab mounted? *)

\* mnt_table_is_empty()
mnt_table_is_empty(h) == list_empty(h, TbEnts)

\* remove_mountpoint_from_path(): path behind the mountpoint mnt, which is a
\* prefix of path in every table whose targets are canonical
remove_mountpoint_from_path(path, mnt) ==
    LET sz == Len(mnt)
        p == IF sz > 1 THEN SubSeq(path, sz + 1, Len(path)) ELSE path
    IN  IF p # "" THEN p ELSE "/"

\* mnt_table_get_fs_root() for an entry whose type is neither btrfs nor
\* auto: [fs, root], the entry that is the source of a bind mount (or NULL)
\* and the root the kernel will report; root is NULL when the function left
\* *fsroot alone
mnt_table_get_fs_root(h, sys, f, bind) ==
    LET src == mnt_resolve_spec(sys, mnt_fs_get_source(f))
        found(fm) ==
            LET mnt == IF fm # NoFs THEN mnt_fs_get_target(sys.fs[fm]) ELSE NULL
                composed(root, src_fs) ==
                    LET src_root == IF src_fs = NoFs THEN NULL
                                    ELSE mnt_fs_get_root(sys.fs[src_fs])
                    IN  [fs |-> src_fs,
                         root |-> IF src_fs # NoFs /\ src_root # NULL
                                     /\ ~startswith(root, src_root)
                                  THEN IF root = "/" THEN src_root
                                       ELSE src_root \o root
                                  ELSE root]
            IN  IF mnt = NULL THEN [fs |-> NoFs, root |-> NULL]
                ELSE composed(remove_mountpoint_from_path(src, mnt),
                              mnt_table_find_target(h, sys, mnt, "BACKWARD"))
    IN  IF ~bind THEN [fs |-> NoFs, root |-> "/"]
        ELSE found(IF src = NULL THEN NoFs
                   ELSE mnt_table_find_mountpoint(h, sys, src, "BACKWARD"))

\* the value of a decimal digit, or -1
Digit(c) ==
    CASE c = "0" -> 0 [] c = "1" -> 1 [] c = "2" -> 2 [] c = "3" -> 3 [] c = "4" -> 4
      [] c = "5" -> 5 [] c = "6" -> 6 [] c = "7" -> 7 [] c = "8" -> 8 [] c = "9" -> 9
      [] OTHER -> -1

RECURSIVE parse_digits(_, _)
\* the number written in decimal digits behind acc, or -1
parse_digits(val, acc) ==
    IF val = "" THEN acc
    ELSE IF Digit(SubSeq(val, 1, 1)) < 0 THEN -1
    ELSE parse_digits(SubSeq(val, 2, Len(val)), 10 * acc + Digit(SubSeq(val, 1, 1)))

\* mnt_parse_offset() of a number without a suffix: [rc, offset]
mnt_parse_offset(val) ==
    LET parsed(n) == IF n < 0 THEN [rc |-> -1, offset |-> 0]
                     ELSE [rc |-> 0, offset |-> n]
    IN  IF val = "" THEN [rc |-> -1, offset |-> 0] ELSE parsed(parse_digits(val, 0))

\* loopdev_is_used(): the loop device is backed by the file, at the offset
\* when it is asked for
loopdev_is_used(sys, device, filename, offset, with_offset) ==
    \E l \in sys.loops :
        /\ l[1] = device
        /\ l[2] = filename
        /\ with_offset => l[3] = offset

\* stat(src): st_rdev of a block device, 0 for everything else
st_rdev(sys, src) ==
    IF \E b \in sys.rdev : b[1] = src
    THEN (CHOOSE b \in sys.rdev : b[1] = src)[2]
    ELSE 0

\* what mnt_table_is_fs_mounted() derives from fstab_fs in front of its
\* loop: the source, the target, the root, the device number
is_fs_mounted_args(h, sys, fstab_fs) ==
    LET rooted(r) ==
            LET src0 == IF r.fs # NoFs THEN mnt_fs_get_srcpath(sys.fs[r.fs]) ELSE NULL
                src1 == IF src0 = NULL THEN mnt_fs_get_source(fstab_fs) ELSE src0
                src == IF src1 # NULL /\ h.cache /\ ~mnt_fs_is_pseudofs(fstab_fs)
                       THEN mnt_resolve_spec(sys, src1)
                       ELSE src1
            IN  [src |-> src,
                 tgt |-> mnt_fs_get_target(fstab_fs),
                 root |-> r.root,
                 devno |-> IF src # NULL /\ r.root # NULL
                           THEN IF mnt_fs_get_devno(fstab_fs) # 0
                                THEN mnt_fs_get_devno(fstab_fs)
                                ELSE st_rdev(sys, src)
                           ELSE 0]
    IN  IF is_mountinfo(h, sys)
        THEN rooted(mnt_table_get_fs_root(h, sys, fstab_fs,
                        mnt_fs_get_option(fstab_fs, "bind") = 0))
        ELSE rooted([fs |-> NoFs, root |-> NULL])

\* the test of one entry's source in the loop of mnt_table_is_fs_mounted()
is_fs_mounted_source(sys, fstab_fs, a, e) ==
    LET off == IF mnt_fs_get_option(fstab_fs, "offset") = 0
               THEN mnt_parse_offset(mnt_fs_option_value(fstab_fs, "offset"))
               ELSE [rc |-> 0, offset |-> 0]
    IN  \/ mnt_fs_streq_srcpath(e, a.src)
        \/ a.devno # 0 /\ mnt_fs_get_devno(e) = a.devno
        \/ /\ mnt_fs_get_srcpath(e) # NULL
           /\ startswith(mnt_fs_get_srcpath(e), "/dev/loop")
           /\ off.rc = 0
           /\ loopdev_is_used(sys, mnt_fs_get_srcpath(e), a.src, off.offset,
                              mnt_fs_get_option(fstab_fs, "offset") = 0)

RECURSIVE is_fs_mounted_loop(_, _, _, _, _, _)
\* the while loop of mnt_table_is_fs_mounted() over the entries ents that
\* are left, with the canonical target xtgt when it was asked for: rc
is_fs_mounted_loop(h, sys, fstab_fs, a, ents, xtgt) ==
    IF ents = <<>> THEN 0
    ELSE LET e == sys.fs[Head(ents)]
             r == mnt_fs_get_root(e)
             x == IF xtgt = NULL /\ h.cache THEN mnt_resolve_path(sys, a.tgt)
                  ELSE xtgt
         IN  IF ~is_fs_mounted_source(sys, fstab_fs, a, e)
             THEN is_fs_mounted_loop(h, sys, fstab_fs, a, Tail(ents), xtgt)
             ELSE IF a.root # NULL /\ (r = NULL \/ r # a.root)
             THEN is_fs_mounted_loop(h, sys, fstab_fs, a, Tail(ents), xtgt)
             ELSE IF xtgt = NULL /\ mnt_fs_streq_target(e, a.tgt) THEN 1
             ELSE IF x # NULL /\ mnt_fs_streq_target(e, x) THEN 1
             ELSE is_fs_mounted_loop(h, sys, fstab_fs, a, Tail(ents), x)

\* mnt_table_is_fs_mounted(): 0 or 1
mnt_table_is_fs_mounted(h, sys, fstab_fs) ==
    LET derived(a) ==
            IF a.tgt = NULL \/ a.src = NULL THEN 0
            ELSE is_fs_mounted_loop(h, sys, fstab_fs, a,
                                    EntriesOf(h, "FORWARD").ents, NULL)
    IN  IF mnt_fs_is_swaparea(fstab_fs) \/ mnt_table_is_empty(h) THEN 0
        ELSE derived(is_fs_mounted_args(h, sys, fstab_fs))

----------------------------------------------------------------------------
(* The systems of the table specification *)

\* a system: the fields of the caller's entries, the symbolic links
\* <<path, canonical path>>, the devices that tags evaluate to <<tag, value,
\* device>>, the devices that cannot be read, the block devices <<path,
\* number>>, the loop devices <<device, backing file, offset>>, the entries of
\* fstab that are asked about, and the targets and sources that are looked up
System(fs, links, tags, noaccess, rdev, loops, fstab, paths, sources) ==
    [fs |-> fs, links |-> links, tags |-> tags, noaccess |-> noaccess,
     rdev |-> rdev, loops |-> loops, fstab |-> fstab, paths |-> paths,
     sources |-> sources]

\* /proc/self/mountinfo: /dev/sda1 on /, /dev/sdb1 on /mnt and /dev/sdc1
\* mounted over it
SysMountinfo ==
    System(<< Fs("/dev/sda1", "/", "ext4", "/", 2049, 21, 1, {"KERNEL"}, {}),
              Fs("/dev/sdb1", "/mnt", "ext4", "/", 2065, 22, 21, {"KERNEL"}, {}),
              Fs("/dev/sdc1", "/mnt", "ext4", "/", 2081, 23, 22, {"KERNEL"}, {}) >>,
           {}, {}, {}, {}, {}, << >>,
           {"/", "/mnt", "/mnt/a/b", "/mnt/", "/x", ""},
           {"/dev/sdb1", "/dev/sdd1"})

\* an fstab in which LABEL=foo and /dev/foo are the same device, and
\* /dev/disk/bar is a symbolic link to /dev/bar
SysFstab ==
    System(<< Fs("LABEL=foo", "/foo", "auto", NULL, 0, 0, 0, {}, {}),
              Fs("/dev/foo", "/foo", "auto", NULL, 0, 0, 0, {}, {}),
              Fs("/dev/disk/bar", "/bar", "ext4", NULL, 0, 0, 0, {}, {}) >>,
           {<<"/dev/disk/bar", "/dev/bar">>, <<"/dev/disk/foo", "/dev/foo">>},
           {<<"LABEL", "foo", "/dev/foo">>, <<"UUID", "f00", "/dev/foo">>,
            <<"UUID", "ba4", "/dev/bar">>},
           {"/dev/bar"}, {}, {}, << >>,
           {"/foo", "/foo/x"},
           {"/dev/foo", "LABEL=foo", "UUID=f00", "FOO=foo", "/dev/disk/foo",
            "/dev/bar", "UUID=ba4", "LABEL=", NULL})

\* an mtab with a mountpoint that is a symbolic link: /lnk points to /mnt
\* and /lnk2 to /data; one target is a relative path, of a device that is
\* mounted twice; fstab has /dev/sdb1 on /lnk and a swap area
SysLinks ==
    System(<< Fs("/dev/sda1", "/mnt", "ext4", NULL, 0, 0, 0, {}, {}),
              Fs("/dev/sdb1", "/lnk", "ext4", NULL, 0, 0, 0, {}, {}),
              Fs("/dev/sdb1", "a", "ext4", NULL, 0, 0, 0, {}, {}) >>,
           {<<"/lnk", "/mnt">>, <<"/lnk2", "/data">>, <<"/mnt2", "/lnk">>},
           {}, {}, {}, {},
           << Fs("/dev/sdb1", "/lnk", "ext4", NULL, 0, 0, 0, {}, {}),
              Fs("/dev/sda1", "/mnt2", "ext4", NULL, 0, 0, 0, {}, {}),
              Fs("/dev/sdz1", "none", "swap", NULL, 0, 0, 0, {}, {}) >>,
           {"/lnk", "/mnt", "/mnt2", "/lnk/x", "a/b", "a", "/"},
           {"/dev/sda1"})

\* /proc/self/mountinfo with a bind mount and a loop device: /dev/sda1 on /,
\* its directory /src bound to /dst, /dev/loop0 (the file /disk.img at
\* offset 4096) on /img; fstab has the bind mount, the image with its
\* offset, with another offset, with an offset that is no number and
\* without one, the root by another name of its device, a device that is
\* not mounted, and bind mounts of /dst and of directories below it
SysBind ==
    System(<< Fs("/dev/sda1", "/", "ext4", "/", 2049, 21, 1, {"KERNEL"}, {}),
              Fs("/dev/sda1", "/dst", "ext4", "/src", 2049, 22, 21, {"KERNEL"}, {}),
              Fs("/dev/loop0", "/img", "ext4", "/", 1792, 23, 21, {"KERNEL"}, {}) >>,
           {}, {}, {},
           {<<"/dev/sda1", 2049>>, <<"/dev/root", 2049>>, <<"/dev/loop0", 1792>>},
           {<<"/dev/loop0", "/disk.img", 4096>>},
           << Fs("/src", "/dst", "none", NULL, 0, 0, 0, {}, {<<"bind", "">>}),
              Fs("/disk.img", "/img", "ext4", NULL, 0, 0, 0, {},
                 {<<"loop", "">>, <<"offset", "4096">>}),
              Fs("/disk.img", "/img", "ext4", NULL, 0, 0, 0, {},
                 {<<"loop", "">>, <<"offset", "512">>}),
              Fs("/disk.img", "/img", "ext4", NULL, 0, 0, 0, {},
                 {<<"loop", "">>, <<"offset", "abc">>}),
              Fs("/disk.img", "/img", "ext4", NULL, 0, 0, 0, {}, {<<"loop", "">>}),
              Fs("/dev/root", "/", "ext4", NULL, 0, 0, 0, {}, {}),
              Fs("/dev/sdb1", "/dst", "ext4", NULL, 0, 0, 0, {}, {}),
              Fs("/dev/sda1", "/dst", "ext4", NULL, 0, 0, 0, {}, {}),
              Fs("/dst/x", "/b1", "none", NULL, 0, 0, 0, {}, {<<"bind", "">>}),
              Fs("/dst/src/y", "/b2", "none", NULL, 0, 0, 0, {}, {<<"bind", "">>}),
              Fs("/dst", "/b3", "none", NULL, 0, 0, 0, {}, {<<"bind", "">>}) >>,
           {"/dst", "/src/x"},
           {"/dev/sda1", "/dev/loop0"})

Systems == {SysMountinfo, SysFstab, SysLinks, SysBind}

\* the flags mnt_table_uniq_fs() is called with
UniqFlags == { {}, {"FORWARD"}, {"KEEPTREE"}, {"FORWARD", "KEEPTREE"} }

----------------------------------------------------------------------------
(* The state machine of the table specification: one action per function *)

\* s without its elements equal to x, and s backwards
Without(s, x) == SelectSeq(s, LAMBDA e : e # x)
Reverse(s) == [k \in 1 .. Len(s) |-> s[Len(s) + 1 - k]]
Has(s, x) == \E k \in DOMAIN s : s[k] = x

\* the ghost record of the table specification: the last call with its
\* arguments (fs, arg) and its results (rc, res), and
\*   order    the entries the caller has added and not removed, oldest first
\*   misused  an entry was added while it was on a list, or removed while
\*            it was on none
\*   log      the entries mnt_table_next_fs() has given out since
\*            mnt_reset_iter(), and stable: the table was not changed since
\*   before   order before the last call
TabCall(op, rc, fs, arg, res, order, misused, log, stable, before) ==
    [op |-> op, rc |-> rc, fs |-> fs, arg |-> arg, res |-> res, order |-> order,
     misused |-> misused, log |-> log, stable |-> stable, before |-> before]

\* the ghost record after a call that changes the table to order
Changed(op, fs, arg, order, misused) ==
    TabCall(op, 0, fs, arg, NoFs, order, misused, <<>>, FALSE,
            IF op = "uniq_fs" THEN hist.order ELSE <<>>)

\* where a call that found the list broken leaves the program
After(r) == IF r.uaf THEN "undefined" ELSE IF r.hang THEN "hung" ELSE "ready"

InitTab ==
    /\ dev \in Systems
    /\ \E cache \in BOOLEAN :
          pr = mnt_new_table(cache, [fs \in Fss |->
                                        [refcount |-> 1, parent |-> dev.fs[fs].parent]])
    /\ pc = "ready"
    /\ hist = TabCall("none", 0, NoFs, <<>>, NoFs, <<>>, FALSE, <<>>, TRUE, <<>>)

\* mnt_table_add_fs() for an entry that is on no list
AddFs ==
    /\ pc = "ready"
    /\ \E fs \in Fss :
          /\ list_empty(pr, fs)
          /\ pr' = mnt_table_add_fs(pr, fs).h
          /\ hist' = Changed("add_fs", fs, <<>>, Append(hist.order, fs),
                             hist.misused \/ Has(hist.order, fs))
    /\ UNCHANGED <<dev, pc>>

\* mnt_table_remove_fs() for an entry of the table
RemoveFs ==
    /\ pc = "ready"
    /\ \E fs \in Fss :
          /\ ~list_empty(pr, fs)
          /\ pr' = mnt_table_remove_fs(pr, fs).h
          /\ hist' = Changed("remove_fs", fs, <<>>, Without(hist.order, fs),
                             hist.misused \/ ~Has(hist.order, fs))
    /\ UNCHANGED <<dev, pc>>

ResetTable ==
    /\ pc = "ready"
    /\ LET done(r) ==
               /\ pr' = r.h
               /\ pc' = After(r)
               /\ hist' = Changed("reset_table", NoFs, <<>>, <<>>, hist.misused)
       IN  done(mnt_reset_table(pr))
    /\ UNCHANGED dev

UniqFs ==
    /\ pc = "ready"
    /\ \E flags \in UniqFlags, cmpname \in Cmps :
          LET done(r) ==
                  /\ pr' = r.h
                  /\ pc' = After(r)
                  /\ hist' = Changed("uniq_fs", NoFs, <<flags, cmpname>>,
                                     SelectSeq(hist.order,
                                               LAMBDA e : ~Has(r.removed, e)),
                                     hist.misused)
          IN  done(mnt_table_uniq_fs(pr, dev, flags, cmpname))
    /\ UNCHANGED dev

ResetIter ==
    /\ pc = "ready"
    /\ \E direction \in Directions :
          /\ pr' = [pr EXCEPT !.itr = mnt_reset_iter(direction)]
          /\ hist' = TabCall("reset_iter", 0, NoFs, <<direction>>, NoFs, hist.order,
                             hist.misused, <<>>, TRUE, <<>>)
    /\ UNCHANGED <<dev, pc>>

NextFs ==
    /\ pc = "ready"
    /\ LET done(r) ==
               /\ pr' = [pr EXCEPT !.itr = r.itr]
               /\ pc' = IF r.rc = 0 /\ Freed(pr, r.fs) THEN "undefined" ELSE "ready"
               /\ hist' = TabCall("next_fs", r.rc, NoFs, <<>>, r.fs, hist.order,
                                  hist.misused,
                                  IF r.rc = 0 /\ Len(hist.log) <= MaxEnts
                                  THEN Append(hist.log, r.fs) ELSE hist.log,
                                  hist.stable, <<>>)
       IN  done(mnt_table_next_fs(pr, pr.itr))
    /\ UNCHANGED dev

NextTab ==
    \/ AddFs
    \/ RemoveFs
    \/ ResetTable
    \/ UniqFs
    \/ ResetIter
    \/ NextFs

SpecTab == InitTab /\ [][NextTab]_vars

----------------------------------------------------------------------------
(* The specification SpecAny: the table functions called with whatever      *)
(* entry the caller holds, on the table or not.  The caller is followed up  *)
(* to its first call with an entry in the wrong place, and from there       *)
(* through mnt_reset_table() and mnt_table_uniq_fs().                       *)

AddAnyFs ==
    /\ pc = "ready"
    /\ ~hist.misused
    /\ pr.nents < MaxEnts
    /\ \E fs \in Fss :
          /\ ~Freed(pr, fs)
          /\ pr' = mnt_table_add_fs(pr, fs).h
          /\ hist' = Changed("add_fs", fs, <<>>, Append(hist.order, fs),
                             hist.misused \/ Has(hist.order, fs))
    /\ UNCHANGED <<dev, pc>>

RemoveAnyFs ==
    /\ pc = "ready"
    /\ ~hist.misused
    /\ \E fs \in Fss :
          /\ ~Freed(pr, fs)
          /\ pr' = mnt_table_remove_fs(pr, fs).h
          /\ hist' = Changed("remove_fs", fs, <<>>, Without(hist.order, fs),
                             hist.misused \/ ~Has(hist.order, fs))
    /\ UNCHANGED <<dev, pc>>

NextAny ==
    \/ AddAnyFs
    \/ RemoveAnyFs
    \/ ResetTable
    \/ UniqFs

SpecAny == InitTab /\ [][NextAny]_vars

----------------------------------------------------------------------------
(* Properties of the specifications SpecTab and SpecAny *)

\* the number of entries on the list of the table, counted from the head
\* forwards
ListLength == Len(EntriesOf(pr, "FORWARD").ents)

\* C14: after any sequence of table operations (add_fs, remove_fs,
\* reset_table, uniq_fs) with arbitrary entry arguments, the table's nents
\* equals the number of entries on its list.
C14_NentsIsListLength ==
    pc = "ready" => pr.nents = ListLength

----------------------------------------------------------------------------
(* The specification SpecFind: a table that is filled and looked up *)

\* the ghost record after a lookup with arguments arg that returned res
Found(op, arg, res) ==
    TabCall(op, 0, NoFs, arg, res, hist.order, hist.misused, <<>>, FALSE, <<>>)

FindTarget ==
    /\ pc = "ready"
    /\ \E path \in dev.paths, direction \in Directions :
          hist' = Found("find_target", <<path, direction>>,
                        mnt_table_find_target(pr, dev, path, direction))
    /\ UNCHANGED <<pr, dev, pc>>

FindMountpoint ==
    /\ pc = "ready"
    /\ \E path \in dev.paths, direction \in Directions :
          hist' = Found("find_mountpoint", <<path, direction>>,
                        mnt_table_find_mountpoint(pr, dev, path, direction))
    /\ UNCHANGED <<pr, dev, pc>>

FindSource ==
    /\ pc = "ready"
    /\ \E source \in dev.sources, direction \in Directions :
          hist' = Found("find_source", <<source, direction>>,
                        mnt_table_find_source(pr, dev, source, direction))
    /\ UNCHANGED <<pr, dev, pc>>

IsFsMounted ==
    /\ pc = "ready"
    /\ \E k \in DOMAIN dev.fstab :
          hist' = Found("is_fs_mounted", <<k>>,
                        mnt_table_is_fs_mounted(pr, dev, dev.fstab[k]))
    /\ UNCHANGED <<pr, dev, pc>>

\* mnt_table_get_fs_root() with MS_BIND or without it; the root it stores
\* in *fsroot is kept with the arguments
GetFsRoot ==
    /\ pc = "ready"
    /\ \E k \in DOMAIN dev.fstab, bind \in BOOLEAN :
          LET rooted(r) == Found("get_fs_root", <<k, bind, r.root>>, r.fs)
          IN  hist' = rooted(mnt_table_get_fs_root(pr, dev, dev.fstab[k], bind))
    /\ UNCHANGED <<pr, dev, pc>>

NextFind ==
    \/ AddFs
    \/ RemoveFs
    \/ FindTarget
    \/ FindMountpoint
    \/ FindSource
    \/ IsFsMounted
    \/ GetFsRoot

SpecFind == InitTab /\ [][NextFind]_vars


\* the entries of the table in the order in which a walk in the direction of
\* the caller's iterator has to give them: oldest first when forward
InWalkOrder ==
    IF pr.itr.direction = "FORWARD" THEN hist.order ELSE Reverse(hist.order)

\* C15: repeated next_fs calls on an unchanged table with a forward iterator
\* yield every table entry exactly once in insertion order and then return
\* 1; with a backward iterator they yield the entries in reverse insertion
\* order and then return 1.
C15_IterationOrder ==
    pc = "ready" /\ hist.op = "next_fs" /\ hist.stable
        => IF hist.rc = 0
           THEN /\ Len(hist.log) <= Len(InWalkOrder)
                /\ hist.log = SubSeq(InWalkOrder, 1, Len(hist.log))
                /\ hist.res = hist.log[Len(hist.log)]
           ELSE /\ hist.rc = 1
                /\ hist.res = NoFs
                /\ hist.log = InWalkOrder

\* a backward walk over a table of three entries has come to its end
C15_Witness ==
    /\ pc = "ready" /\ hist.op = "next_fs" /\ hist.stable
    /\ hist.rc = 1
    /\ pr.itr.direction = "BACKWARD"
    /\ Len(hist.order) = 3
    /\ hist.log = Reverse(hist.order)

\* the two entries are equal for the comparison function cmpname
Equal(cmpname, a, b) == cmp(cmpname, dev.fs[a], dev.fs[b]) = 0

\* what de-duplication has to leave of the table before: with forward the
\* first entry of every class of equal entries, otherwise the last one, in
\* the order they had
Deduplicated(before, forward, cmpname) ==
    LET place(e) == CHOOSE k \in DOMAIN before : before[k] = e
        rivals(e) == IF forward THEN 1 .. place(e) - 1
                     ELSE place(e) + 1 .. Len(before)
    IN  SelectSeq(before,
                  LAMBDA e : \A j \in rivals(e) : ~Equal(cmpname, before[j], e))

\* C16: uniq_fs with a comparison that is an equivalence leaves the table
\* equal to the subsequence that keeps exactly one entry per class of equal
\* entries, the last-inserted one by default and the first-inserted one with
\* MNT_UNIQ_FORWARD; the relative order of the survivors is unchanged.
C16_UniqKeepsOne ==
    hist.op = "uniq_fs"
        => /\ pc = "ready"
           /\ hist.rc = 0
           /\ EntriesOf(pr, "FORWARD").ents
                 = Deduplicated(hist.before, "FORWARD" \in hist.arg[1], hist.arg[2])
           /\ EntriesOf(pr, "BACKWARD").ents = Reverse(EntriesOf(pr, "FORWARD").ents)

\* a table of three entries, two of them equal, was de-duplicated backwards
\* and the older of the two is gone
C16_Witness ==
    /\ pc = "ready" /\ hist.op = "uniq_fs"
    /\ "FORWARD" \notin hist.arg[1]
    /\ Len(hist.before) = 3
    /\ \E e \in Fss :
          /\ hist.order = Without(hist.before, e)
          /\ \E j \in DOMAIN hist.before :
                /\ Equal(hist.arg[2], hist.before[j], e)
                /\ j > CHOOSE k \in DOMAIN hist.before : hist.before[k] = e

\* the entries of the table in the order in which a lookup in the given
\* direction meets them
Walk(direction) == IF direction = "FORWARD" THEN hist.order ELSE Reverse(hist.order)

\* the positions in walk of the entries whose native target is path
NativeTargets(walk, path) ==
    {k \in DOMAIN walk : dev.fs[walk[k]].target = path}

\* C17: find_target(path, direction) returns the first entry in the given
\* direction whose native target equals path whenever such an entry exists,
\* even if an entry that matches only after canonicalization comes earlier
\* in that direction; on a table without a cache only this native pass runs
\* and the result is NULL when no native match exists.
C17_NativeTargetFirst ==
    hist.op = "find_target"
        => LET walk == Walk(hist.arg[2])
               native == NativeTargets(walk, hist.arg[1])
           IN  /\ native # {}
                     => hist.res = walk[CHOOSE k \in native : \A j \in native : k <= j]
               /\ native = {} /\ ~pr.cache => hist.res = NoFs

\* with a cache, /lnk was looked up forwards in a table that holds the entry
\* mounted on /mnt, which /lnk points to, in front of the entry mounted on
\* /lnk: the entry on /lnk is returned
C17_Witness ==
    /\ hist.op = "find_target" /\ pr.cache
    /\ hist.arg = <<"/lnk", "FORWARD">>
    /\ \E j, k \in DOMAIN hist.order :
          /\ j < k
          /\ dev.fs[hist.order[j]].target = "/mnt"
          /\ mnt_resolve_path(dev, "/lnk") = "/mnt"
          /\ dev.fs[hist.order[k]].target = "/lnk"
          /\ hist.res = hist.order[k]

\* the leading-component prefixes of path: path itself and what is in front
\* of each of its '/'
Prefixes(path) ==
    {path} \cup {SubSeq(path, 1, i - 1) :
                    i \in {j \in 1 .. Len(path) : SubSeq(path, j, j) = "/"}}

\* what the ascent has to return for path: the entry that find_target finds
\* for the longest prefix for which it finds one, and for "/" when there is
\* no such prefix
Mountpoint(path, direction) ==
    LET hit == {p \in Prefixes(path) :
                   mnt_table_find_target(pr, dev, p, direction) # NoFs}
    IN  IF hit = {} THEN mnt_table_find_target(pr, dev, "/", direction)
        ELSE mnt_table_find_target(pr, dev,
                                   CHOOSE p \in hit : \A q \in hit : Len(q) <= Len(p),
                                   direction)

\* C18 as stated: find_mountpoint(path, direction) terminates for every
\* non-empty path and returns the entry found by find_target for the longest
\* leading-component prefix of path that has a matching target; when no
\* prefix matches it returns the result of find_target("/").
C18_LongestPrefix_AsStated ==
    hist.op = "find_mountpoint" /\ hist.arg[1] # ""
        => pc = "ready" /\ hist.res = Mountpoint(hist.arg[1], hist.arg[2])

\* For every absolute path the ascent does return that entry (of a relative
\* path a prefix of one character is never looked up).
AbsoluteLongestPrefix ==
    hist.op = "find_mountpoint" /\ startswith(hist.arg[1], "/")
        => pc = "ready" /\ hist.res = Mountpoint(hist.arg[1], hist.arg[2])

\* /mnt/a/b was looked up and the entry mounted on /mnt, two components
\* above, was returned
AbsoluteAscent ==
    /\ hist.op = "find_mountpoint"
    /\ hist.arg[1] = "/mnt/a/b"
    /\ hist.res # NoFs
    /\ dev.fs[hist.res].target = "/mnt"
    /\ Has(hist.order, hist.res)

\* a source that is a tag: NAME=value with one of the tag names of libmount
\* in front of the first '=' and a value behind it
IsTag(source) ==
    /\ source # NULL
    /\ \E name \in {"UUID", "LABEL", "PARTUUID", "PARTLABEL"} :
          /\ startswith(source, name \o "=")
          /\ Len(source) > Len(name) + 1

\* the positions in walk of the entries whose source, as written in the
\* table, is source: the same tag for a tag, the same path for a path
SameSource(walk, source) ==
    {k \in DOMAIN walk :
        IF IsTag(source)
        THEN /\ dev.fs[walk[k]].tagname # NULL
             /\ dev.fs[walk[k]].tagname \o "=" \o dev.fs[walk[k]].tagval = source
        ELSE /\ dev.fs[walk[k]].tagname = NULL
             /\ dev.fs[walk[k]].source = source}

\* C19: find_source dispatches on the spec: a valid TAG=VALUE spec goes to
\* find_tag, anything else to find_srcpath, and in both the first attempt
\* compares unmodified values, so that in a table holding `LABEL=foo /foo`
\* followed by `/dev/foo /foo` for the same device find_source("/dev/foo")
\* returns the second entry and find_source("LABEL=foo") returns the first.
C19_SourceDispatch ==
    hist.op = "find_source" =>
        LET source == hist.arg[1]
            direction == hist.arg[2]
            walk == Walk(direction)
            same == SameSource(walk, source)
            t == blkid_parse_tag_string(source)
        IN  /\ IsTag(source) =>
                hist.res = mnt_table_find_tag(pr, dev, t.name, t.value, direction)
            /\ ~IsTag(source) =>
                hist.res = mnt_table_find_srcpath(pr, dev, source, direction)
            /\ same # {} /\ source # NULL =>
                hist.res = walk[CHOOSE k \in same : \A j \in same : k <= j]
            /\ dev = SysFstab /\ hist.order = <<1, 2>> =>
                /\ source = "/dev/foo" => hist.res = 2
                /\ source = "LABEL=foo" => hist.res = 1

\* both entries of the example are on the table, the tag in front of the
\* path, the table has a cache that maps the tag to the device of the second
\* entry, and the lookup of the device returned the second entry
C19_Witness ==
    /\ hist.op = "find_source"
    /\ dev = SysFstab
    /\ hist.order = <<1, 2>>
    /\ pr.cache
    /\ hist.arg = <<"/dev/foo", "FORWARD">>
    /\ hist.res = 2

\* the entry of fstab that the last call asked about, and what the function
\* derived from it
AskedFs == dev.fstab[hist.arg[1]]
Asked == is_fs_mounted_args(pr, dev, AskedFs)

\* the entry e matches the source: the same source path, or the device
\* number of the source, or a loop device that is backed by the source at
\* the offset fstab gives, if it gives one
MatchesSource(e) ==
    \/ e.tagname = NULL /\ e.source # NULL /\ e.source = Asked.src
    \/ \E b \in dev.rdev : b[1] = Asked.src /\ b[2] # 0 /\ b[2] = e.devno
    \/ AskedFs.devno # 0 /\ AskedFs.devno = e.devno
    \/ \E l \in dev.loops :
          /\ e.tagname = NULL /\ l[1] = e.source /\ l[2] = Asked.src
          /\ \A o \in AskedFs.opts :
                o[1] = "offset" => mnt_parse_offset(o[2]) = [rc |-> 0, offset |-> l[3]]

\* the entry e has the root that was derived, if one was
MatchesRoot(e) == Asked.root # NULL => e.root # NULL /\ e.root = Asked.root

\* the entry e has the target of fstab, as it is written or canonical
MatchesTarget(e) ==
    /\ e.target # NULL /\ Asked.tgt # NULL
    /\ \/ e.target = Asked.tgt
       \/ pr.cache /\ e.target = mnt_resolve_path(dev, Asked.tgt)

\* C20: is_fs_mounted(tb, fstab_fs) returns 1 exactly when some table entry
\* matches the source (equal source path, or equal device number, or loop
\* device backed by the source), and matches the expected fs-root when one
\* was derived, and has a target equal to the fstab target either natively
\* or after canonicalization; it returns 0 for swap entries and for an empty
\* table.
C20_IsFsMounted_AsStated ==
    hist.op = "is_fs_mounted" =>
        IF AskedFs.fstype = "swap" \/ hist.order = << >>
        THEN hist.res = 0
        ELSE hist.res = 1 <=>
                 /\ Asked.src # NULL
                 /\ \E k \in DOMAIN hist.order :
                       /\ MatchesSource(dev.fs[hist.order[k]])
                       /\ MatchesRoot(dev.fs[hist.order[k]])
                       /\ MatchesTarget(dev.fs[hist.order[k]])

\* On a table whose entries have canonical targets the function does return
\* 1 exactly in these cases.
KernelIsFsMounted == dev = SysBind => C20_IsFsMounted_AsStated

\* the bind mount of fstab was found mounted on a table that has the bound
\* directory's file system and the bind mount
BindIsMounted ==
    /\ hist.op = "is_fs_mounted"
    /\ dev = SysBind
    /\ hist.arg[1] = 1
    /\ hist.res = 1

\* the bind mount the last mnt_table_get_fs_root() was asked about: its
\* source as a path, the mountpoint the source is below and that
\* mountpoint's entry on the table
BindSource == mnt_resolve_spec(dev, dev.fstab[hist.arg[1]].source)
BindMountpoint ==
    LET fm == mnt_table_find_mountpoint(pr, dev, BindSource, "BACKWARD")
    IN  IF BindSource = NULL \/ fm = NoFs THEN NULL ELSE dev.fs[fm].target
BindMountpointFs == mnt_table_find_target(pr, dev, BindMountpoint, "BACKWARD")

\* path without its prefix mnt, "/" when nothing is left; below "/" the
\* path itself
Stripped(path, mnt) ==
    IF path = mnt THEN "/"
    ELSE IF mnt = "/" THEN path
    ELSE SubSeq(path, Len(mnt) + 1, Len(path))

\* C21: For a bind-mount entry, the derived fs-root is the source path with
\* the mountpoint prefix stripped ("/" when they are equal), and whenever the
\* mountpoint's own table entry has a non-root fs-root that fs-root is
\* prepended to the stripped path, for every combination of source path and
\* mountpoint fs-root.
C21_BindRoot_AsStated ==
    /\ hist.op = "get_fs_root"
    /\ hist.arg[2]
    /\ BindMountpoint # NULL
    /\ BindMountpointFs # NoFs
    => LET stripped == Stripped(BindSource, BindMountpoint)
           src_root == dev.fs[BindMountpointFs].root
       IN  hist.arg[3] = IF src_root # NULL /\ src_root # "/"
                         THEN IF stripped = "/" THEN src_root
                              ELSE src_root \o stripped
                         ELSE stripped

\* When the stripped path does not begin with the fs-root of the
\* mountpoint's entry, the derived root is as stated.
BindRootNoPrefix ==
    /\ hist.op = "get_fs_root"
    /\ hist.arg[2]
    /\ BindMountpoint # NULL
    /\ BindMountpointFs # NoFs
    /\ dev.fs[BindMountpointFs].root # NULL
    /\ ~startswith(Stripped(BindSource, BindMountpoint), dev.fs[BindMountpointFs].root)
    => C21_BindRoot_AsStated

\* the root of a directory below a bind mount was derived with the bind
\* mount's own root in front
NestedBindRoot ==
    /\ hist.op = "get_fs_root"
    /\ hist.arg[2]
    /\ hist.arg[3] = "/src/x"

----------------------------------------------------------------------------
(* Properties of reset, wiper and descriptor *)

\* C22: reset_probe is idempotent: from any prober state, calling
\* reset_probe twice yields the same state (values, wiper, cur_chain, chain
\* positions, filters, buffers, device) as calling it once.
C22_ResetIdempotent ==
    blkid_reset_probe(blkid_reset_probe(pr)) = blkid_reset_probe(pr)

\* reset_probe was called on a prober that had probed its device: the
\* buffers of the probing are still cached, and a second call changes nothing
C22_Witness ==
    /\ hist.op = "reset_probe"
    /\ pr.buffers # <<>>
    /\ pr.values = <<>>
    /\ blkid_reset_probe(pr) = pr

\* every value on the list is tagged with a chain that stands on a
\* descriptor
TaggedWithPosition(p) ==
    \A k \in DOMAIN p.values : p.chains[p.values[k].chain].idx >= 0

\* C23 as stated: After any probe call (do_probe, do_safeprobe or
\* do_fullprobe) returns, every value on the value list is tagged with a
\* chain whose idx is >= 0.
C23_ValueChainIdx_AsStated ==
    hist.op \in {"do_probe", "do_safeprobe", "do_fullprobe"} /\ pc = "ready"
        => TaggedWithPosition(pr)

\* C23, amended: after a do_probe that returned 0 in an unbroken loop of
\* do_probe calls on a freshly reset prober, every value on the list is
\* tagged with a chain whose idx is >= 0; after do_safeprobe or do_fullprobe
\* has probed and returned 0 or 1, the idx of every enabled chain is -1
\* again, also of the chains that values on the list are tagged with.
C23_ValueChainIdx ==
    /\ hist.op = "do_probe" /\ pc = "ready" /\ hist.rc = 0 /\ hist.pure
          => TaggedWithPosition(pr)
    /\ (/\ hist.op \in {"do_safeprobe", "do_fullprobe"}
        /\ pc = "ready" /\ hist.rc >= 0 /\ "NOSCAN_DEV" \notin pr.flags)
          => \A c \in Chains : pr.chains[c].enabled => pr.chains[c].idx = -1

\* do_safeprobe has returned 0 and left values of two chains on the list
C23_Witness ==
    /\ hist.op = "do_safeprobe"
    /\ hist.rc = 0
    /\ \E i, j \in DOMAIN pr.values : pr.values[i].chain # pr.values[j].chain
    /\ ~TaggedWithPosition(pr)

----------------------------------------------------------------------------
(* The wiper specification SpecWipe: a prober with every chain enabled on a  *)
(* device that holds an LVM label, probed by the public calls, and the calls *)
(* a probing function makes on the wipe area while its chain is the current  *)
(* one.                                                                      *)

\* an LVM label with an ext superblock and a topology the first descriptor
\* finds, and an LVM label with a DOS partition table in the zeroed area
WipeDevices ==
    { Device("REG", 16384, ImgExt(0) \cup ImgLvm(0), {0}, FALSE),
      Device("REG", 16384, ImgLvm(0) \cup ImgDos(0), {}, FALSE) }

\* the areas <<off, size>> blkid_probe_set_wiper() and
\* blkid_probe_use_wiper() are called with
SetWiperAreas == { <<0, 8192>>, <<4096, 4096>>, <<0, 0>> }
UseWiperAreas == { <<0, 512>>, <<4096, 4096>>, <<8190, 4>>, <<4000, 200>>, <<100, 0>> }

InitWipe ==
    /\ pr = probe_configure(blkid_new_probe({}), Chains, {"MAGIC"})
    /\ dev \in WipeDevices
    /\ pc = "ready"
    /\ hist = NoCall

\* the record of a call on the wipe area: the arguments, and the area, its
\* chain and the length of the value list before the call
WiperCall(op, off, size) ==
    [NoCall EXCEPT !.op = op,
                   !.calls = <<off, size, pr.wipe_off, pr.wipe_size, pr.wipe_chain,
                               Len(pr.values)>>]

SetWiper ==
    /\ pc = "ready"
    /\ pr.cur_chain # NoChain
    /\ \E a \in SetWiperAreas :
          /\ pr' = blkid_probe_set_wiper(pr, a[1], a[2])
          /\ hist' = WiperCall("set_wiper", a[1], a[2])
    /\ UNCHANGED <<dev, pc>>

UseWiper ==
    /\ pc = "ready"
    /\ pr.cur_chain # NoChain
    /\ \E a \in UseWiperAreas :
          /\ pr' = blkid_probe_use_wiper(pr, a[1], a[2])
          /\ hist' = WiperCall("use_wiper", a[1], a[2])
    /\ UNCHANGED <<dev, pc>>

NextWipe ==
    \/ SetDevice
    \/ DoProbe
    \/ DoSafeprobe
    \/ DoFullprobe
    \/ StepBack
    \/ ResetProbe
    \/ SetWiper
    \/ UseWiper

SpecWipe == InitWipe /\ [][NextWipe]_vars

(* Properties of the wiper specification SpecWipe *)

\* the wipe area of prober p is empty
NoWiper(p) == p.wipe_off = 0 /\ p.wipe_size = 0 /\ p.wipe_chain = NoChain

\* the last call was a step_back that moved the idx of the chain it stood on
\* from 0 to -1
SteppedBackToStart ==
    /\ hist.op = "step_back"
    /\ hist.prev.cur # NoChain
    /\ hist.prev.idx = 0
    /\ pr.chains[hist.prev.cur].idx = -1

\* the last call ended with blkid_probe_end(): do_safeprobe and do_fullprobe
\* on a device that is scanned, and the do_probe that found no chain left
EndedProbing ==
    /\ pc = "ready"
    /\ \/ hist.op \in {"do_safeprobe", "do_fullprobe"} /\ "NOSCAN_DEV" \notin pr.flags
       \/ hist.op = "do_probe" /\ hist.rc = 1 /\ "NOSCAN_DEV" \notin pr.flags

\* C24 as stated: The wipe area is empty (offset 0, size 0, no producing
\* chain) in every state that immediately follows the start or the end of
\* probing and in every state that immediately follows a step_back which
\* moved a chain idx to -1.
C24_WiperReset_AsStated ==
    /\ NoWiper(blkid_probe_start(pr))
    /\ NoWiper(blkid_probe_end(pr))
    /\ EndedProbing => NoWiper(pr)
    /\ SteppedBackToStart => NoWiper(pr)

\* At the start and at the end of probing the wipe area is empty.
WiperResetAtStartAndEnd ==
    /\ NoWiper(blkid_probe_start(pr))
    /\ NoWiper(blkid_probe_end(pr))
    /\ EndedProbing => NoWiper(pr)

\* probing has ended on a prober that had a wipe area when it started
EndedWithoutWiper ==
    /\ EndedProbing
    /\ hist.op = "do_probe"
    /\ NoWiper(pr)
    /\ \E k \in DOMAIN pr.values : pr.values[k].name = "TYPE"


\* the range [off, off + size) of a use_wiper call lies wholly inside the
\* wipe area [woff, woff + wsize) that chain wchain registered
WhollyInside(off, size, woff, wsize, wchain) ==
    /\ size > 0
    /\ wchain # NoChain
    /\ wsize > 0
    /\ woff <= off
    /\ off + size <= woff + wsize

\* C25: use_wiper(off, size) with size > 0 and [off, off+size) wholly inside
\* a registered wipe area removes every value produced by the chain that
\* registered the area, keeps the values of all other chains, and resets the
\* wipe area; when the range is not wholly inside the area (or no area is
\* registered) neither the value list nor the wipe area changes.
C25_UseWiper ==
    [][hist'.op = "use_wiper" =>
          LET off  == hist'.calls[1]
              size == hist'.calls[2]
          IN  IF WhollyInside(off, size, pr.wipe_off, pr.wipe_size, pr.wipe_chain)
              THEN /\ pr'.values = SelectSeq(pr.values,
                                       LAMBDA v : v.chain # pr.wipe_chain)
                   /\ NoWiper(pr')
              ELSE /\ pr'.values = pr.values
                   /\ pr'.wipe_off = pr.wipe_off
                   /\ pr'.wipe_size = pr.wipe_size
                   /\ pr'.wipe_chain = pr.wipe_chain]_vars

\* a use_wiper inside the area has discarded the values of the chain that
\* registered it and has kept the values of another chain
C25_Witness ==
    /\ hist.op = "use_wiper"
    /\ WhollyInside(hist.calls[1], hist.calls[2], hist.calls[3], hist.calls[4],
                    hist.calls[5])
    /\ Len(pr.values) < hist.calls[6]
    /\ pr.values # <<>>
    /\ \A k \in DOMAIN pr.values : pr.values[k].chain # hist.calls[5]
    /\ NoWiper(pr)

\* a use_wiper that reaches beyond the registered area has changed nothing
C25_WitnessOutside ==
    /\ hist.op = "use_wiper"
    /\ hist.calls[2] > 0
    /\ hist.calls[4] > 0
    /\ ~WhollyInside(hist.calls[1], hist.calls[2], hist.calls[3], hist.calls[4],
                     hist.calls[5])
    /\ Len(pr.values) = hist.calls[6]
    /\ ~NoWiper(pr)

----------------------------------------------------------------------------
(* The clone specification SpecClone: a prober (the parent), made unbound or *)
(* from a file name, and a clone of it.  Both are bound to devices, moved to *)
(* probing areas, read through blkid_probe_get_buffer() and freed.  The      *)
(* variable pr holds the two probers, which of them are allocated, and the   *)
(* descriptors: the number the next open() returns, the descriptors the      *)
(* library opened itself, and how often the library called close() on each.  *)

\* the greatest descriptor number open() hands out
MaxFd == 4

FirstFd == 3

\* a faulty clone that reads for itself: with it the clone fills its own
\* buffer list and C26_CloneForwards fails
get_buffer_of_own(c, par, off, len, io) ==
    LET own(r) == [pr |-> r.pr, parent |-> par, buf |-> r.buf, bf |-> r.bf,
                   real_off |-> r.real_off, errno |-> r.errno, abrt |-> r.abrt,
                   poff |-> off]
    IN  own(blkid_probe_get_buffer(c, off, len, io))

\* blkid_probe_get_buffer() of a prober c whose parent is par:
\* [pr, parent, buf, bf, real_off, errno, abrt, poff], poff is the offset the
\* parent is asked for
blkid_probe_get_buffer_of_clone(c, par, off, len, io) ==
    LET real_off == U64(c.off + off)
        none(e)  == [pr |-> c, parent |-> par, buf |-> FALSE, bf |-> Buf(0, 0),
                     real_off |-> real_off, errno |-> e, abrt |-> FALSE, poff |-> off]
        poff     == U64(c.off + off + Mod64 - par.off)
        forwarded(r) ==
            [pr |-> c, parent |-> r.pr, buf |-> r.buf, bf |-> r.bf,
             real_off |-> r.real_off, errno |-> r.errno, abrt |-> r.abrt,
             poff |-> poff]
        own(r) ==
            [pr |-> r.pr, parent |-> par, buf |-> r.buf, bf |-> r.bf,
             real_off |-> r.real_off, errno |-> r.errno, abrt |-> r.abrt,
             poff |-> off]
    IN  IF c.size = 0 THEN none(EINVAL)
        ELSE IF len = 0 \/ U64(c.off + c.size) < U64(real_off + len) THEN none(0)
        ELSE IF /\ par.devno = c.devno
                /\ par.off <= c.off
                /\ U64(par.off + par.size) >= U64(c.off + c.size)
        THEN forwarded(blkid_probe_get_buffer(par, poff, len, io))
        ELSE own(blkid_probe_get_buffer(c, off, len, io))

\* blkid_clone_probe(): a new prober with the parent's descriptor, window and
\* flags without the private-fd flag; the mode is not copied
blkid_clone_probe(parent) ==
    [blkid_new_probe({}) EXCEPT !.fd = parent.fd, !.off = parent.off,
                                !.size = parent.size, !.devno = parent.devno,
                                !.disk_devno = parent.disk_devno,
                                !.blkssz = parent.blkssz,
                                !.flags = parent.flags \ {"PRIVATE_FD"}]

\* a faulty close that does not look at the private-fd flag: with it the
\* descriptors of the caller are closed and C27_PrivateFd fails
close_any_fd(p) == IF p.fd >= FirstFd THEN <<p.fd>> ELSE <<>>

\* if ((pr->flags & BLKID_FL_PRIVATE_FD) && pr->fd >= 0) close(pr->fd): the
\* close() calls of blkid_probe_set_device() and blkid_free_probe() on p
close_private_fd(p) ==
    IF "PRIVATE_FD" \in p.flags /\ p.fd >= 0 THEN <<p.fd>> ELSE <<>>

\* blkid_new_probe_from_filename(), for the descriptor fd that open()
\* returned: [ok, pr, closed], closed lists the close() calls in order.
\* alloc says that blkid_new_probe() got its memory.
blkid_new_probe_from_filename(fd, dv, alloc) ==
    LET \* err: close(fd) and blkid_free_probe(pr)
        err(p)  == [ok |-> FALSE, pr |-> p, closed |-> <<fd>> \o close_private_fd(p)]
        set(r)  == IF r.rc # 0 THEN err(r.pr)
                   ELSE [ok |-> TRUE,
                         pr |-> [r.pr EXCEPT !.flags = @ \cup {"PRIVATE_FD"}],
                         closed |-> <<>>]
    IN  IF ~alloc
        THEN [ok |-> FALSE, pr |-> blkid_new_probe({}), closed |-> <<fd>>]
        ELSE set(blkid_probe_set_device(blkid_new_probe({}), fd, 0, 0, dv))

\* the devices: a is what the parent is bound to (an image file, a block
\* device, a FIFO that set_device rejects), b is another block device
CloneDevices ==
    { [a |-> Device("REG", 4194304, {}, {}, FALSE),
       b |-> [Device("BLK", 8388608, {}, {}, FALSE) EXCEPT !.rdev = 9]],
      [a |-> Device("BLK", 8388608, {}, {}, FALSE),
       b |-> [Device("BLK", 8388608, {}, {}, FALSE) EXCEPT !.rdev = 9]],
      [a |-> Device("FIFO", 0, {}, {}, FALSE),
       b |-> [Device("BLK", 8388608, {}, {}, FALSE) EXCEPT !.rdev = 9]] }

\* the <<off, size>> of set_device and of set_dimension, and the requests
CloneAreas == { <<0, 0>>, <<1048576, 2097152>> }
CloneDims  == { <<2097152, 1048576>>, <<1048576, 524288>> }
CloneOffs  == {0, 1024}
CloneLens  == {0, 1024}

Probers == {"parent", "clone"}

\* the ghost record of the clone specification: the last call, the prober it
\* was made on, its result, the request of a get and what served it, the
\* lengths of the two buffer lists before the call, the close() calls it
\* made and whether the prober had the private-fd flag before the call
CloneCall(op, who, rc, off, len, r, closed) ==
    [op |-> op, who |-> who, rc |-> rc, off |-> off, len |-> len,
     buf |-> r.buf, bf |-> r.bf, poff |-> r.poff,
     nclone |-> Len(pr.clone.buffers), nparent |-> Len(pr.parent.buffers),
     closed |-> closed,
     private |-> who \in pr.live /\ "PRIVATE_FD" \in pr[who].flags]

NoGet == [buf |-> FALSE, bf |-> Buf(0, 0), poff |-> 0]

RECURSIVE Closed(_, _)
\* the close() counters after the calls of the sequence closed
Closed(closes, closed) ==
    IF closed = <<>> THEN closes
    ELSE Closed([closes EXCEPT ![Head(closed)] = @ + 1], Tail(closed))

InitClone ==
    /\ pr = [parent |-> blkid_new_probe({}), clone |-> blkid_new_probe({}),
             live |-> {}, nextfd |-> FirstFd, lib |-> {},
             closes |-> [f \in 0 .. MaxFd |-> 0]]
    /\ dev \in CloneDevices
    /\ pc = "ready"
    /\ hist = [op |-> "none", who |-> "parent", rc |-> 0, off |-> 0, len |-> 0,
               buf |-> FALSE, bf |-> Buf(0, 0), poff |-> 0, nclone |-> 0,
               nparent |-> 0, closed |-> <<>>, private |-> FALSE]

\* pr = blkid_new_probe()
NewProbe ==
    /\ pc = "ready"
    /\ "parent" \notin pr.live
    /\ pr' = [pr EXCEPT !.parent = blkid_new_probe({}), !.live = @ \cup {"parent"}]
    /\ hist' = CloneCall("new_probe", "parent", 0, 0, 0, NoGet, <<>>)
    /\ UNCHANGED <<dev, pc>>

\* pr = blkid_new_probe_from_filename(name of device a)
NewProbeFromFilename ==
    /\ pc = "ready"
    /\ "parent" \notin pr.live
    /\ pr.nextfd <= MaxFd
    /\ \E alloc \in BOOLEAN :
          LET made(r) ==
                  /\ pr' = [pr EXCEPT !.parent = IF r.ok THEN r.pr ELSE @,
                                      !.live = IF r.ok THEN @ \cup {"parent"} ELSE @,
                                      !.nextfd = @ + 1,
                                      !.lib = @ \cup {pr.nextfd},
                                      !.closes = Closed(@, r.closed)]
                  /\ hist' = CloneCall("new_probe_from_filename", "parent",
                                       IF r.ok THEN 0 ELSE -1, 0, 0, NoGet, r.closed)
          IN  made(blkid_new_probe_from_filename(pr.nextfd, dev.a, alloc))
    /\ UNCHANGED <<dev, pc>>

\* blkid_probe_set_device(who, fd, off, size): fd is a descriptor the caller
\* has just opened, or the one the prober holds already
CloneSetDevice ==
    /\ pc = "ready"
    /\ \E who \in pr.live, a \in CloneAreas, fresh \in BOOLEAN :
          LET fd == IF fresh THEN pr.nextfd ELSE pr[who].fd
              set(r) ==
                  /\ pr' = [pr EXCEPT ![who] = r.pr,
                                      !.nextfd = IF fresh THEN @ + 1 ELSE @,
                                      !.closes = Closed(@, close_private_fd(pr[who]))]
                  /\ hist' = CloneCall("set_device", who, r.rc, a[1], a[2], NoGet,
                                       close_private_fd(pr[who]))
          IN  /\ fresh => pr.nextfd <= MaxFd
              /\ set(blkid_probe_set_device(pr[who], fd, a[1], a[2],
                                            IF who = "clone" THEN dev.b ELSE dev.a))
    /\ UNCHANGED <<dev, pc>>

\* blkid_probe_set_dimension(who, off, size)
CloneSetDimension ==
    /\ pc = "ready"
    /\ \E who \in pr.live, a \in CloneDims :
          /\ pr[who].size # 0
          /\ pr' = [pr EXCEPT ![who] = blkid_probe_set_dimension(@, a[1], a[2])]
          /\ hist' = CloneCall("set_dimension", who, 0, a[1], a[2], NoGet, <<>>)
    /\ UNCHANGED <<dev, pc>>

\* clone = blkid_clone_probe(parent)
CloneProbe ==
    /\ pc = "ready"
    /\ "parent" \in pr.live
    /\ "clone" \notin pr.live
    /\ pr' = [pr EXCEPT !.clone = blkid_clone_probe(pr.parent),
                        !.live = @ \cup {"clone"}]
    /\ hist' = CloneCall("clone_probe", "clone", 0, 0, 0, NoGet, <<>>)
    /\ UNCHANGED <<dev, pc>>

\* blkid_free_probe(who); a parent is freed after its clone
FreeProbe ==
    /\ pc = "ready"
    /\ \E who \in pr.live :
          /\ who = "parent" => "clone" \notin pr.live
          /\ pr' = [pr EXCEPT !.live = @ \ {who},
                              ![who] = blkid_new_probe({}),
                              !.closes = Closed(@, close_private_fd(pr[who]))]
          /\ hist' = CloneCall("free_probe", who, 0, 0, 0, NoGet,
                               close_private_fd(pr[who]))
    /\ UNCHANGED <<dev, pc>>

\* blkid_probe_get_buffer(parent, off, len)
ParentGetBuffer ==
    /\ pc = "ready"
    /\ "parent" \in pr.live
    /\ \E off \in CloneOffs, len \in CloneLens, io \in IO :
          LET done(r) ==
                  /\ Len(r.pr.buffers) <= MaxBufs
                  /\ pr' = [pr EXCEPT !.parent = r.pr]
                  /\ pc' = IF r.abrt THEN "aborted" ELSE "ready"
                  /\ hist' = CloneCall("get_buffer", "parent",
                                       IF r.buf THEN 0 ELSE -1, off, len,
                                       [buf |-> r.buf, bf |-> r.bf, poff |-> off], <<>>)
          IN  done(blkid_probe_get_buffer(pr.parent, off, len, io))
    /\ UNCHANGED dev

\* blkid_probe_get_buffer(clone, off, len)
CloneGetBuffer ==
    /\ pc = "ready"
    /\ "clone" \in pr.live
    /\ \E off \in CloneOffs, len \in CloneLens, io \in IO :
          LET done(r) ==
                  /\ Len(r.pr.buffers) <= MaxBufs
                  /\ Len(r.parent.buffers) <= MaxBufs
                  /\ pr' = [pr EXCEPT !.clone = r.pr, !.parent = r.parent]
                  /\ pc' = IF r.abrt THEN "aborted" ELSE "ready"
                  /\ hist' = CloneCall("get_buffer", "clone",
                                       IF r.buf THEN 0 ELSE -1, off, len,
                                       [buf |-> r.buf, bf |-> r.bf, poff |-> r.poff],
                                       <<>>)
          IN  done(blkid_probe_get_buffer_of_clone(pr.clone, pr.parent, off, len, io))
    /\ UNCHANGED dev

NextClone ==
    \/ NewProbe
    \/ NewProbeFromFilename
    \/ CloneSetDevice
    \/ CloneSetDimension
    \/ CloneProbe
    \/ FreeProbe
    \/ ParentGetBuffer
    \/ CloneGetBuffer

SpecClone == InitClone /\ [][NextClone]_vars

(* Properties of the clone specification SpecClone *)

\* the parent covers the clone: the same device number and a window that
\* holds the clone's window
Covered ==
    /\ pr.parent.devno = pr.clone.devno
    /\ pr.parent.off <= pr.clone.off
    /\ pr.clone.off + pr.clone.size <= pr.parent.off + pr.parent.size

CloneReadsForItself ==
    /\ hist.op = "get_buffer"
    /\ hist.who = "clone"
    /\ ~Covered
    /\ hist.buf
    /\ Len(pr.clone.buffers) = hist.nclone + 1

\* the descriptors the library has opened and not closed
LibOpen == {f \in pr.lib : pr.closes[f] = 0}

\* C27: The prober closes a descriptor only while its private-fd flag is
\* set: a descriptor opened by new_probe_from_filename is closed exactly
\* once (by free_probe or by the next set_device, also on the failure path
\* of creation), and a borrowed descriptor (passed to set_device by the
\* caller, or inherited by a clone) is never closed by the library.
C27_PrivateFd ==
    \* no descriptor is closed twice, and none but those the library opened
    /\ \A f \in DOMAIN pr.closes :
          /\ pr.closes[f] <= 1
          /\ pr.closes[f] = 1 => f \in pr.lib
    \* a descriptor the library opened is open only as long as the prober
    \* made for it lives, holds it and has the flag
    /\ \A f \in LibOpen :
          /\ "parent" \in pr.live
          /\ pr.parent.fd = f
          /\ "PRIVATE_FD" \in pr.parent.flags
    \* the flag stands on no other prober
    /\ "PRIVATE_FD" \in pr.parent.flags => pr.parent.fd \in LibOpen
    /\ "PRIVATE_FD" \notin pr.clone.flags
    \* a call closes under the flag, or on the failure path of creation
    /\ hist.closed # <<>> =>
          /\ Len(hist.closed) = 1
          /\ \/ hist.op \in {"free_probe", "set_device"} /\ hist.private
             \/ hist.op = "new_probe_from_filename" /\ hist.rc = -1
    /\ (hist.op \in {"free_probe", "set_device"} /\ ~hist.private) => hist.closed = <<>>

\* a prober made from a file name has a clone, and set_device on the parent
\* has closed the descriptor the library opened
C27_Witness ==
    /\ hist.op = "set_device"
    /\ hist.who = "parent"
    /\ hist.private
    /\ hist.closed # <<>>
    /\ pr.closes[hist.closed[1]] = 1
    /\ "clone" \in pr.live
    /\ "PRIVATE_FD" \notin pr.parent.flags

\* the creation failed and closed the descriptor it had opened
CreationFailed ==
    /\ hist.op = "new_probe_from_filename"
    /\ hist.rc = -1
    /\ hist.closed # <<>>
    /\ pr.closes[hist.closed[1]] = 1

\* free_probe has closed the descriptor of a prober made from a file name
FreedPrivate ==
    /\ hist.op = "free_probe"
    /\ hist.private
    /\ pr.closes[hist.closed[1]] = 1

----------------------------------------------------------------------------
(* The sharing specification SpecShare: two tables and the entries of Fss,   *)
(* every entry with the one list node struct libmnt_fs has (fs->ents).  The  *)
(* caller adds an entry to a table that does not hold it yet, whether or not *)
(* the other table holds it, removes entries and walks the tables.  The      *)
(* variable pr is the heap: the list pointers of the two list heads and of   *)
(* the entries, the reference counters and the entry counters of the tables. *)

\* the list node &tb->ents of the second table (the first is TbEnts)
Tb2Ents == 4

Tables == {TbEnts, Tb2Ents}

\* the entries the caller of the sharing specification works with
ShareFss == {1, 2}

\* mnt_table_add_fs(tb, fs)
table_add_fs(h, tb, fs) ==
    [list_add_tail(mnt_ref_fs(h, fs), fs, tb) EXCEPT !.nents[tb] = @ + 1]

\* mnt_table_remove_fs(tb, fs)
table_remove_fs(h, tb, fs) ==
    [mnt_unref_fs(INIT_LIST_HEAD(list_del(h, fs), fs), fs) EXCEPT !.nents[tb] = @ - 1]

RECURSIVE table_walk(_, _, _, _, _, _)
\* mnt_reset_iter() and the loop while (mnt_table_next_fs(tb, itr, &fs) == 0)
\* from node p on: [ents, hang, wild].  wild: the loop came to the list head
\* of the other table and took it for the node of an entry (list_entry() of
\* a node that lies in no struct libmnt_fs); hang: the loop does not come
\* back to &tb->ents
table_walk(h, tb, forward, p, seen, fuel) ==
    IF p = tb THEN [ents |-> seen, hang |-> FALSE, wild |-> FALSE]
    ELSE IF p \in Tables THEN [ents |-> seen, hang |-> FALSE, wild |-> TRUE]
    ELSE IF fuel = 0 THEN [ents |-> seen, hang |-> TRUE, wild |-> FALSE]
    ELSE table_walk(h, tb, forward, IF forward THEN h.next[p] ELSE h.prev[p],
                    Append(seen, p), fuel - 1)

\* the walk of table tb from its first (forward) or last (backward) entry
TableEntries(h, tb, forward) ==
    table_walk(h, tb, forward, IF forward THEN h.next[tb] ELSE h.prev[tb], <<>>, Fuel)

\* the ghost record of the sharing specification: the last call, and order:
\* for each table the entries the caller has added and not removed, oldest
\* first; ents, hang and wild are what the last walk gave
ShareCall(op, tb, fs, order, walk) ==
    [op |-> op, tb |-> tb, fs |-> fs, order |-> order, ents |-> walk.ents,
     hang |-> walk.hang, wild |-> walk.wild]

NoWalk == [ents |-> <<>>, hang |-> FALSE, wild |-> FALSE]

\* two tables after mnt_new_table() and the caller's entries after
\* mnt_new_fs()
InitShare ==
    /\ dev = SysFstab
    /\ pr = [nents |-> [tb \in Tables |-> 0],
             next |-> [n \in Tables \cup Fss |-> n],
             prev |-> [n \in Tables \cup Fss |-> n],
             fs |-> [fs \in Fss |-> [refcount |-> 1]]]
    /\ pc = "ready"
    /\ hist = ShareCall("none", TbEnts, NoFs, [tb \in Tables |-> <<>>], NoWalk)

\* mnt_table_add_fs(tb, fs) for an entry that table tb does not hold
ShareAddFs ==
    /\ pc = "ready"
    /\ \E tb \in Tables, fs \in ShareFss :
          /\ ~Has(hist.order[tb], fs)
          /\ pr' = table_add_fs(pr, tb, fs)
          /\ hist' = ShareCall("add_fs", tb, fs,
                               [hist.order EXCEPT ![tb] = Append(@, fs)], NoWalk)
    /\ UNCHANGED <<dev, pc>>

\* mnt_table_remove_fs(tb, fs) for an entry that table tb holds
ShareRemoveFs ==
    /\ pc = "ready"
    /\ \E tb \in Tables, fs \in ShareFss :
          /\ Has(hist.order[tb], fs)
          /\ pr' = table_remove_fs(pr, tb, fs)
          /\ hist' = ShareCall("remove_fs", tb, fs,
                               [hist.order EXCEPT ![tb] = Without(@, fs)], NoWalk)
    /\ UNCHANGED <<dev, pc>>

\* a walk over table tb
ShareWalk ==
    /\ pc = "ready"
    /\ \E tb \in Tables, forward \in BOOLEAN :
          LET walked(r) ==
                  /\ pc' = IF r.wild THEN "undefined"
                           ELSE IF r.hang THEN "hung" ELSE "ready"
                  /\ hist' = ShareCall("walk", tb, NoFs, hist.order, r)
          IN  walked(TableEntries(pr, tb, forward))
    /\ UNCHANGED <<pr, dev>>

NextShare ==
    \/ ShareAddFs
    \/ ShareRemoveFs
    \/ ShareWalk

SpecShare == InitShare /\ [][NextShare]_vars

(* Properties of the sharing specification SpecShare *)

\* the tables that hold entry fs, as the caller has added and removed it
Holders(fs) == {tb \in Tables : Has(hist.order[tb], fs)}

\* a forward walk over table tb ends and gives the entries the caller has
\* added to it and not removed
WalkGives(tb) ==
    LET gives(r) == ~r.hang /\ ~r.wild /\ r.ents = hist.order[tb]
    IN  gives(TableEntries(pr, tb, TRUE))

\* C28 as stated: A mount entry may be shared between tables: after
\* add_fs(t1, e) and add_fs(t2, e) the entry appears in the iteration of
\* both t1 and t2, its reference count was incremented once per appearance,
\* and removing it from one table leaves it in the other.
C28_SharedEntry_AsStated ==
    /\ \A tb \in Tables : WalkGives(tb)
    /\ \A fs \in Fss : pr.fs[fs].refcount = 1 + Cardinality(Holders(fs))

\* The table owns one reference per appearance: the reference counter of an
\* entry is the caller's reference and one for every table it was added to
\* and not removed from.
OneReferencePerTable ==
    \A fs \in Fss : pr.fs[fs].refcount = 1 + Cardinality(Holders(fs))

\* an entry is on both tables and has three references
SharedEntry ==
    \E fs \in Fss : Holders(fs) = Tables /\ pr.fs[fs].refcount = 3

(* Properties of calls that fail *)

\* the chain positions of prober p
Positions(p) == [c \in Chains |-> p.chains[c].idx]

\* C29 as stated: A call rejected for an invalid argument causes no partial
\* state change: when set_device fails (unsupported file type, or window
\* larger than the device), the prober's device handle, window, flags, value
\* list, buffer cache and chain positions are the same as before the call.
C29_SetDeviceFails_AsStated ==
    [][(hist'.op = "set_device" /\ hist'.rc # 0) =>
          /\ pr'.fd = pr.fd
          /\ pr'.mode = pr.mode
          /\ pr'.devno = pr.devno
          /\ pr'.disk_devno = pr.disk_devno
          /\ pr'.blkssz = pr.blkssz
          /\ pr'.off = pr.off
          /\ pr'.size = pr.size
          /\ pr'.flags = pr.flags
          /\ pr'.values = pr.values
          /\ pr'.buffers = pr.buffers
          /\ pr'.cur_chain = pr.cur_chain
          /\ Positions(pr') = Positions(pr)]_vars


----------------------------------------------------------------------------
(* The specification SpecIo: probing with system calls that fail.  Besides   *)
(* the magics, the probing functions read further blocks of the device, some *)
(* of them near its end, through blkid_probe_get_buffer().                   *)

\* a 4 MiB image with an ext superblock, and an 8 MiB disk with an LVM label
\* and a DOS partition table
IoDevices ==
    { Device("REG", 4194304, ImgExt(0), {}, FALSE),
      Device("BLK", 8388608, ImgLvm(0) \cup ImgDos(0), {0}, FALSE) }

\* the offsets of the blocks the probing functions read besides the magics
IoOffs == {0, 3145728}

InitIo ==
    /\ pr = probe_configure(blkid_new_probe({}), Chains, {})
    /\ dev \in IoDevices
    /\ pc = "ready"
    /\ hist = NoCall

\* blkid_probe_get_buffer(pr, off, 1024), called by a probing function
ReadBuffer ==
    /\ pc = "ready"
    /\ pr.size # 0
    /\ \E off \in IoOffs, io \in IO :
          LET done(r) ==
                  /\ Len(r.pr.buffers) <= MaxBufs
                  /\ pr' = r.pr
                  /\ pc' = IF r.abrt THEN "aborted" ELSE "ready"
                  /\ hist' = [NoCall EXCEPT !.op = "get_buffer",
                                            !.rc = IF r.buf THEN 0 ELSE -r.errno]
          IN  done(blkid_probe_get_buffer(pr, off, MagSlot, io))
    /\ UNCHANGED dev

\* blkid_do_probe() with system calls that work or fail
DoProbeIo ==
    /\ pc = "ready"
    /\ \E io \in IO : Probed("do_probe", blkid_do_probe(pr, dev, io))

NextIo ==
    \/ SetDevice
    \/ ReadBuffer
    \/ DoProbeIo
    \/ DoSafeprobe
    \/ StepBack
    \/ ResetProbe

SpecIo == InitIo /\ [][NextIo]_vars

(* Properties of the specification SpecIo *)

\* the last call failed with the error of a system call
IoFailed ==
    /\ hist.op \in {"get_buffer", "do_probe", "do_safeprobe"}
    /\ hist.rc = -ENOMEM

\* C30 as stated: After an I/O failure, a subsequent reset_probe (as well as
\* a subsequent step_back) clears the prober's buffer cache: the buffer list
\* is empty after either call.
C30_FailureThenReset_AsStated ==
    [][(IoFailed /\ (ResetProbe \/ StepBack)) => pr'.buffers = <<>>]_vars

\* After an I/O failure a step_back on a prober that stands on a chain
\* clears the buffer cache.
StepBackOnChainClears ==
    [][(IoFailed /\ pr.cur_chain # NoChain /\ StepBack) => pr'.buffers = <<>>]_vars

\* a do_probe has failed on a prober whose cache holds a range
FailedWithCache ==
    /\ hist.op = "do_probe"
    /\ hist.rc = -ENOMEM
    /\ pr.cur_chain # NoChain
    /\ pr.buffers # <<>>

----------------------------------------------------------------------------
(* Frame conditions of reset_probe, do_wipe and the binary interface *)

\* what reset_probe must leave alone
ResetKeeps(p, q) ==
    /\ \A c \in Chains :
          /\ q.chains[c].fltr = p.chains[c].fltr
          /\ q.chains[c].fltr_alloc = p.chains[c].fltr_alloc
          /\ q.chains[c].enabled = p.chains[c].enabled
          /\ q.chains[c].flags = p.chains[c].flags
    /\ q.fd = p.fd
    /\ q.mode = p.mode
    /\ q.devno = p.devno
    /\ q.off = p.off
    /\ q.size = p.size

\* C31: reset_probe empties the value list, resets the wipe area, unsets
\* cur_chain and sets every chain idx to -1, and leaves unchanged the filter
\* bitmaps, the chains' enabled flags and mode flags, the assigned device
\* descriptor and the probing window.
C31_ResetFrame ==
    LET reset(q) ==
            /\ q.values = <<>>
            /\ NoWiper(q)
            /\ q.cur_chain = NoChain
            /\ \A c \in Chains : q.chains[c].idx = -1
            /\ ResetKeeps(pr, q)
    IN  reset(blkid_reset_probe(pr))

\* a reset has been made on a prober with a device and a filter
C31_Witness ==
    /\ hist.op = "reset_probe"
    /\ pr.size # 0
    /\ pr.fd # 0
    /\ \E c \in Chains : pr.chains[c].fltr_alloc /\ pr.chains[c].fltr # {}
    /\ pr.values = <<>>
    /\ pr.cur_chain = NoChain

\* the names of the magic values of the chain prober p stands on are both on
\* its value list
MagicOnList(p) ==
    LET named(n) == \E k \in DOMAIN p.values : p.values[k].name = n
    IN  \/ p.cur_chain = BLKID_CHAIN_SUBLKS /\ named("SBMAGIC_OFFSET") /\ named("SBMAGIC")
        \/ p.cur_chain = BLKID_CHAIN_PARTS /\ named("PTMAGIC_OFFSET") /\ named("PTMAGIC")

WipeOnTopology ==
    /\ hist.op = "do_wipe_dry"
    /\ hist.rc = 0
    /\ pr.cur_chain = BLKID_CHAIN_TOPLGY

----------------------------------------------------------------------------
(* The configuration file (config.c).  A file is the sequence of its lines   *)
(* without the newline characters; struct blkid_config is a record with the  *)
(* send-uevent flag (-1: not set, 0: FALSE, 1: TRUE), the cache file name,   *)
(* the evaluation methods in order, the PROBE_OFF names and the reference    *)
(* counter.                                                                  *)

\* __BLKID_EVAL_LAST: the number of evaluation methods
BLKID_EVAL_LAST == 2

\* tolower() for the letters the configuration values are written with
ToLower(c) ==
    CASE c = "Y" -> "y" [] c = "E" -> "e" [] c = "S" -> "s"
      [] c = "N" -> "n" [] c = "O" -> "o" [] OTHER -> c

RECURSIVE strcasecmp(_, _)
\* strcasecmp(a, b) == 0
strcasecmp(a, b) ==
    IF Len(a) = 0 \/ Len(b) = 0 THEN Len(a) = Len(b)
    ELSE /\ ToLower(SubSeq(a, 1, 1)) = ToLower(SubSeq(b, 1, 1))
         /\ strcasecmp(SubSeq(a, 2, Len(a)), SubSeq(b, 2, Len(b)))

\* s + n for n <= strlen(s)
StrFrom(s, n) == SubSeq(s, n + 1, Len(s))

RECURSIVE SplitAt(_, _)
\* the pieces of s between the separators sep, the empty ones too
SplitAt(s, sep) ==
    LET at == strchr(s, sep)
    IN  IF at = 0 THEN <<s>>
        ELSE <<SubSeq(s, 1, at - 1)>> \o SplitAt(StrFrom(s, at), sep)

\* strv_split(s, ","): the pieces that are not empty
strv_split(s) == SelectSeq(SplitAt(s, ","), LAMBDA w : w # "")

RECURSIVE evaluate_from(_, _)
\* the loop of parse_evaluate() over the pieces that are left: [rc, conf]
evaluate_from(conf, words) ==
    IF words = <<>> THEN [rc |-> 0, conf |-> conf]
    ELSE IF Len(conf.eval) >= BLKID_EVAL_LAST THEN [rc |-> -1, conf |-> conf]
    ELSE IF Head(words) \notin {"udev", "scan"} THEN [rc |-> -1, conf |-> conf]
    ELSE evaluate_from([conf EXCEPT !.eval = Append(@, Head(words))], Tail(words))

\* parse_evaluate(): the loop ends at an empty rest (while (s && *s))
parse_evaluate(conf, s) ==
    LET words == SplitAt(s, ",")
    IN  evaluate_from(conf, IF words[Len(words)] = "" THEN SubSeq(words, 1, Len(words) - 1)
                            ELSE words)

\* parse_probeoff()
parse_probeoff(conf, s) == [rc |-> 0, conf |-> [conf EXCEPT !.probeoff = strv_split(s)]]

RECURSIVE skip_space(_)
\* while (*s == ' ' || *s == '\t') s++
skip_space(s) ==
    IF Len(s) > 0 /\ SubSeq(s, 1, 1) \in {" ", "\t"} THEN skip_space(StrFrom(s, 1)) ELSE s

\* the line without a carriage return at its end
chomp(s) ==
    IF Len(s) > 0 /\ SubSeq(s, Len(s), Len(s)) = "\r" THEN SubSeq(s, 1, Len(s) - 1) ELSE s

\* the if / else if of parse_next() for the option line s: the set of the
\* [rc, conf] the call can end with.  SEND_UEVENT= is 12 characters long and
\* the code goes on at s + 13: for a line that ends after the "=" this is
\* the byte behind the terminating zero, which holds whatever was in buf[]
\* before, so the flag is set to TRUE, set to FALSE or left alone.
parse_option(conf, s) ==
    IF startswith(s, "SEND_UEVENT=")
    THEN IF Len(s) < 13
         THEN {[rc |-> 0, conf |-> [conf EXCEPT !.uevent = u]] : u \in {conf.uevent, 0, 1}}
         ELSE LET v == StrFrom(s, 13)
              IN  {[rc |-> 0,
                    conf |-> IF v # "" /\ strcasecmp(v, "yes") THEN [conf EXCEPT !.uevent = 1]
                             ELSE IF v # "" THEN [conf EXCEPT !.uevent = 0]
                             ELSE conf]}
    ELSE IF startswith(s, "CACHE_FILE=")
    THEN {[rc |-> 0, conf |-> IF StrFrom(s, 11) # ""
                              THEN [conf EXCEPT !.cachefile = StrFrom(s, 11)] ELSE conf]}
    ELSE IF startswith(s, "EVALUATE=")
    THEN {IF StrFrom(s, 9) # "" THEN parse_evaluate(conf, StrFrom(s, 9))
          ELSE [rc |-> 0, conf |-> conf]}
    ELSE IF startswith(s, "PROBE_OFF=")
    THEN {IF StrFrom(s, 10) # "" THEN parse_probeoff(conf, StrFrom(s, 10))
          ELSE [rc |-> 0, conf |-> conf]}
    ELSE {[rc |-> -1, conf |-> conf]}

RECURSIVE parse_next(_, _, _)
\* parse_next() with the file position before line pos: the do-while loop
\* reads on over blank lines and comments; [rc, conf, pos, eof]
parse_next(conf, lines, pos) ==
    IF pos > Len(lines)
    THEN {[rc |-> 0, conf |-> conf, pos |-> pos, eof |-> TRUE]}
    ELSE LET s == skip_space(chomp(lines[pos]))
         IN  IF s = "" \/ SubSeq(s, 1, 1) = "#"
             THEN parse_next(conf, lines, pos + 1)
             ELSE {[rc |-> r.rc, conf |-> r.conf, pos |-> pos + 1, eof |-> FALSE] :
                      r \in parse_option(conf, s)}

\* blkid_read_config() after calloc(): the flag not set, one reference
new_config == [uevent |-> -1, refcount |-> 1, cachefile |-> NULL, eval |-> <<>>,
               probeoff |-> <<>>]

\* blkid_read_config() from the label dflt on
config_defaults(conf) ==
    [conf EXCEPT !.eval = IF @ = <<>> THEN <<"udev", "scan">> ELSE @,
                 !.cachefile = IF @ = NULL THEN "/run/blkid/blkid.tab" ELSE @,
                 !.uevent = IF @ = -1 THEN 1 ELSE @]

(* The specification SpecConf: blkid_read_config() on a file *)

\* how many lines a configuration file has at most
MaxLines == 2

ConfLines ==
    { "SEND_UEVENT=yes", "SEND_UEVENT=no", "SEND_UEVENT=", "  SEND_UEVENT=YES\r",
      "# blkid.conf", "", "CACHE_FILE=/run/blkid.tab", "EVALUATE=scan,udev",
      "EVALUATE=lvm", "PROBE_OFF=ext,lvm" }

\* the files: exists says that fopen() finds the file
ConfFiles ==
    {[exists |-> FALSE, lines |-> <<>>]}
    \cup {[exists |-> TRUE, lines |-> l] :
             l \in UNION {[1 .. n -> ConfLines] : n \in 0 .. MaxLines}}

ConfCall(op, rc, pos, eof) == [op |-> op, rc |-> rc, pos |-> pos, eof |-> eof]

InitConf ==
    /\ dev \in ConfFiles
    /\ pr = new_config
    /\ pc = "reading"
    /\ hist = ConfCall("fopen", 0, 1, ~dev.exists)

\* while (!feof(f)) parse_next(f, conf); a parse error frees the
\* configuration
ParseNext ==
    /\ pc = "reading"
    /\ ~hist.eof
    /\ \E r \in parse_next(pr, dev.lines, hist.pos) :
          /\ pr' = IF r.rc # 0 THEN [r.conf EXCEPT !.refcount = @ - 1] ELSE r.conf
          /\ pc' = IF r.rc # 0 THEN "error" ELSE "reading"
          /\ hist' = ConfCall("parse_next", r.rc, r.pos, r.eof)
    /\ UNCHANGED dev

\* dflt: the built-in defaults for what the file did not set
ConfigDefaults ==
    /\ pc = "reading"
    /\ hist.eof
    /\ pr' = config_defaults(pr)
    /\ pc' = "done"
    /\ hist' = ConfCall("read_config", 0, hist.pos, TRUE)
    /\ UNCHANGED dev

NextConf ==
    \/ ParseNext
    \/ ConfigDefaults

SpecConf == InitConf /\ [][NextConf]_vars

(* Properties of the specification SpecConf *)

\* the lines of the file that set SEND_UEVENT, as written
UeventLines ==
    SelectSeq(dev.lines, LAMBDA l : startswith(skip_space(l), "SEND_UEVENT="))

\* C33 as stated: Reading a configuration file that contains the line
\* SEND_UEVENT=yes yields a configuration with the send-uevent flag TRUE,
\* the line SEND_UEVENT=no yields FALSE, and a file without a SEND_UEVENT
\* line yields the default TRUE.
C33_SendUevent_AsStated ==
    pc = "done" =>
        /\ UeventLines = <<"SEND_UEVENT=yes">> => pr.uevent = 1
        /\ UeventLines = <<"SEND_UEVENT=no">> => pr.uevent = 0
        /\ UeventLines = <<>> => pr.uevent = 1

\* A file without a SEND_UEVENT line yields the default TRUE, and the line
\* SEND_UEVENT=no yields FALSE.
UeventDefaultAndNo ==
    pc = "done" =>
        /\ UeventLines = <<"SEND_UEVENT=no">> => pr.uevent = 0
        /\ UeventLines = <<>> => pr.uevent = 1

\* a file with the line SEND_UEVENT=yes was read to its end
ReadUeventYes ==
    /\ pc = "done"
    /\ UeventLines = <<"SEND_UEVENT=yes">>
    /\ pr.uevent = 0

\* C34 as stated: Every call to step_back invalidates the buffer cache:
\* after step_back returns, whatever its return code and whether or not a
\* current chain is set, the prober's buffer list is empty.
C34_StepBackClears_AsStated ==
    [][StepBack => pr'.buffers = <<>>]_vars

\* A step_back that finds a current chain returns 0 and leaves the buffer
\* list empty; one that finds none returns -1 and changes nothing.
StepBackWithChainClears ==
    [][StepBack =>
          IF pr.cur_chain # NoChain
          THEN blkid_probe_step_back(pr).rc = 0 /\ pr'.buffers = <<>>
          ELSE blkid_probe_step_back(pr).rc = -1 /\ pr' = pr]_vars


----------------------------------------------------------------------------
(* The specification SpecMag: blkid_probe_get_idmag() for descriptors with   *)
(* one or two magics, on probing areas that hold every slot, some or none    *)

\* the descriptors blkid_probe_get_idmag() is called with
MagIds ==
    { IdInfo("ext", <<Mag(1, 56, 1, 2), Mag(3, 56, 1, 2)>>, FALSE, 0),
      IdInfo("lvm", <<Mag(0, 536, 2, 8)>>, FALSE, 0),
      IdInfo("gpt", <<Mag(0, 1536, 4, 8)>>, FALSE, 0),
      IdInfo("dosgpt", <<Mag(0, 510, 3, 2), Mag(0, 1536, 4, 8)>>, FALSE, 0),
      IdInfo("ioctl", <<>>, FALSE, 0) }

MagDevices ==
    { Device("REG", 8192, ImgExt(0) \cup ImgGpt(0) \cup ImgDos(0), {}, FALSE),
      Device("REG", 8192, {Sig(3128, 1, 2), Sig(4096 + 536, 2, 8)}, {}, FALSE),
      Device("BLK", 8192, ImgGpt(1024) \cup ImgDos(0), {}, FALSE),
      Device("CHR", 0, ImgDos(1024) \cup ImgGpt(0), {}, FALSE),
      Device("REG", 0, {}, {}, FALSE) }

\* the <<off, size>> blkid_probe_set_device() is called with
MagAreas == { <<0, 0>>, <<4096, 0>>, <<0, 1536>>, <<1024, 2048>> }

MagCall(op, id, io, rc, offset, mag) ==
    [op |-> op, id |-> id, io |-> io, rc |-> rc, offset |-> offset, mag |-> mag]

NoId == IdInfo("", <<>>, FALSE, 0)

InitMag ==
    /\ pr = blkid_new_probe({})
    /\ dev \in MagDevices
    /\ pc = "ready"
    /\ hist = MagCall("none", NoId, "ok", 0, 0, 0)

MagSetDevice ==
    /\ pc = "ready"
    /\ \E a \in MagAreas :
          LET r == blkid_probe_set_device(pr, 3, a[1], a[2], dev)
          IN  /\ pr' = r.pr
              /\ hist' = MagCall("set_device", NoId, "ok", r.rc, 0, 0)
    /\ UNCHANGED <<dev, pc>>

GetIdmag ==
    /\ pc = "ready"
    /\ \E id \in MagIds, io \in IO :
          LET done(r) ==
                  /\ pr' = r.pr
                  /\ pc' = IF r.abrt THEN "aborted" ELSE "ready"
                  /\ hist' = MagCall("get_idmag", id, io, r.rc, r.offset, r.mag)
          IN  done(blkid_probe_get_idmag(pr, dev, id, io))
    /\ UNCHANGED dev

MagResetProbe ==
    /\ pc = "ready"
    /\ pr' = blkid_reset_probe(pr)
    /\ hist' = MagCall("reset_probe", NoId, "ok", 0, 0, 0)
    /\ UNCHANGED <<dev, pc>>

NextMag ==
    \/ MagSetDevice
    \/ GetIdmag
    \/ MagResetProbe

SpecMag == InitMag /\ [][NextMag]_vars

(* Properties of the specification SpecMag *)

\* the place of magic m in the probing area, and the begin of its slot
MagAt(m) == m.kboff * 1024 + m.sboff
SlotOf(m) == MagAt(m) - (MagAt(m) % 1024)

\* the slot of magic m lies in the probing area of p
SlotFits(p, m) == SlotOf(m) + 1024 <= p.size

\* the slot of m lies in the area and the device holds the bytes of m at the
\* place of m in the area
MagMatches(p, dv, m) == SlotFits(p, m) /\ DevHas(dv, p.off + MagAt(m), m)

\* a match is reported at kboff * 1024 + sboff, for the first magic in the
\* order of the array that matches, and the device holds its bytes there
MatchReported(p, dv, h) ==
    (h.rc = BLKID_PROBE_OK /\ h.mag # 0) =>
        /\ h.offset = MagAt(h.id.magics[h.mag])
        /\ MagMatches(p, dv, h.id.magics[h.mag])
        /\ \A j \in 1 .. (h.mag - 1) : ~MagMatches(p, dv, h.id.magics[j])

\* without a failing system call the result is that of the magics whose
\* slots fit: OK for a match or for a descriptor without magics, else NONE
FitOrNoMatch(p, dv, h) ==
    h.io = "ok" =>
        h.rc = IF h.id.magics = <<>>
                  \/ \E j \in DOMAIN h.id.magics : MagMatches(p, dv, h.id.magics[j])
               THEN BLKID_PROBE_OK ELSE BLKID_PROBE_NONE

\* C35 as stated: For every descriptor and magic pattern (kboff, sboff,
\* len, bytes): when get_idmag reports a match, the reported offset equals
\* kboff*1024 + sboff, the pattern reported is the first one in array order
\* that matches, and the len bytes of the probing window at that offset
\* equal the magic bytes; a pattern whose 1024-byte slot does not fit in the
\* window counts as not matching rather than as an error.
C35_Idmag_AsStated ==
    (hist.op = "get_idmag" /\ pc = "ready") =>
        /\ MatchReported(pr, dev, hist)
        /\ FitOrNoMatch(pr, dev, hist)

\* C35: When get_idmag reports a match, the reported offset equals
\* kboff*1024 + sboff, the pattern reported is the first one in array order
\* that matches, and the bytes of the probing window at that offset equal
\* the magic bytes.  In a window of non-zero size a pattern whose 1024-byte
\* slot does not fit counts as not matching; in a window of size zero every
\* descriptor with a pattern gives the error -EINVAL.
C35_Idmag ==
    (hist.op = "get_idmag" /\ pc = "ready") =>
        /\ MatchReported(pr, dev, hist)
        /\ pr.size # 0 => FitOrNoMatch(pr, dev, hist)
        /\ (pr.size = 0 /\ hist.id.magics # <<>>) => hist.rc = -EINVAL

\* get_idmag has reported the second magic of a descriptor whose first magic
\* is not on the device
C35_Witness ==
    /\ hist.op = "get_idmag"
    /\ pc = "ready"
    /\ hist.rc = BLKID_PROBE_OK
    /\ hist.mag = 2
    /\ hist.offset = 3128
    /\ pr.size # 0

\* get_idmag has reported a magic in a probing area that does not begin at
\* the begin of the device
MatchInShiftedArea ==
    /\ hist.op = "get_idmag"
    /\ pc = "ready"
    /\ hist.mag # 0
    /\ pr.off # 0

\* get_idmag has passed over a magic that is on the device in a slot that
\* does not fit in the probing area
SlotOutOfArea ==
    /\ hist.op = "get_idmag"
    /\ pc = "ready"
    /\ hist.rc = BLKID_PROBE_NONE
    /\ \E j \in DOMAIN hist.id.magics :
          /\ ~SlotFits(pr, hist.id.magics[j])
          /\ DevHas(dev, pr.off + MagAt(hist.id.magics[j]), hist.id.magics[j])

\* get_idmag has failed on a probing area of size zero
IdmagOnEmptyArea ==
    /\ hist.op = "get_idmag"
    /\ pr.size = 0
    /\ hist.rc = -EINVAL

----------------------------------------------------------------------------
(* The type filter *)

\* the names filter_types is called with for chain c: those of the chain's
\* descriptors and one that no descriptor has
NamesOf(c) == {idinfo(c, i).name : i \in 0 .. (nidinfos(c) - 1)} \cup {"xfs"}

\* C36: After filter_types(chain, flag, names) on a chain that supports
\* filtering, descriptor i is marked skipped exactly when (flag is only-in
\* and its name is not in names) or (flag is not-in and its name is in
\* names), independently of the filter contents before the call; on a chain
\* without filter support the call returns -1.
C36_FilterTypes ==
    \A c \in Chains, flag \in {"ONLYIN", "NOTIN"} : \A names \in SUBSET NamesOf(c) :
        LET filtered(r) ==
                IF chains_drvs[c].has_fltr
                THEN /\ r.rc = 0
                     /\ \A i \in 0 .. (nidinfos(c) - 1) :
                           i \in r.pr.chains[c].fltr <=>
                              \/ flag = "ONLYIN" /\ idinfo(c, i).name \notin names
                              \/ flag = "NOTIN" /\ idinfo(c, i).name \in names
                     /\ r.pr.chains[c].fltr \subseteq 0 .. (nidinfos(c) - 1)
                ELSE r.rc = -1
        IN  filtered(blkid_probe_filter_types(pr, c, flag, names))

\* filter_types is called on a chain whose filter already skips a descriptor
\* that the new filter lets through
C36_Witness ==
    /\ chains_drvs[BLKID_CHAIN_SUBLKS].has_fltr
    /\ pr.chains[BLKID_CHAIN_SUBLKS].fltr_alloc
    /\ pr.chains[BLKID_CHAIN_SUBLKS].fltr = {1}
    /\ blkid_probe_filter_types(pr, BLKID_CHAIN_SUBLKS, "NOTIN", {"ext"}).pr
           .chains[BLKID_CHAIN_SUBLKS].fltr = {0}
    /\ pr.size # 0

\* the FilterTypes step itself: only-in "lvm", "gpt" leaves the superblocks
\* chain with a filter that skips "ext" alone, whatever the filter was
FilterTypesStep ==
    [][FilterTypes =>
          \A c \in FilterChains :
              \/ pr'.chains[c] = pr.chains[c]
              \/ pr'.chains[c].fltr = {i \in 0 .. (nidinfos(c) - 1) :
                                          idinfo(c, i).name \notin {"lvm", "gpt"}}
              \/ ~chains_drvs[c].has_fltr]_vars

----------------------------------------------------------------------------
(* The binary interface and the probing status *)

\* C37 as stated: The binary interface is independent of the current
\* probing status: a call to get_binary_data(pr, chn) made between two
\* do_probe calls leaves cur_chain, prob_flags and every chain's idx as they
\* were, so the following do_probe returns the same result as it would
\* without the call.
C37_BinaryKeepsStatus_AsStated ==
    [][(hist.op = "do_probe" /\ hist.rc = 0 /\ GetBinaryData /\ pc' = "ready") =>
          /\ pr'.cur_chain = pr.cur_chain
          /\ pr'.prob_flags = pr.prob_flags
          /\ Positions(pr') = Positions(pr)]_vars

\* get_binary_data restores cur_chain and prob_flags, leaves the idx of the
\* other chains alone and leaves the idx of its own chain at -1.
BinaryResetsItsChain ==
    [][(GetBinaryData /\ pc' = "ready") =>
          /\ pr'.cur_chain = pr.cur_chain
          /\ pr'.prob_flags = pr.prob_flags
          /\ \A c \in Chains :
                \/ pr'.chains[c].idx = pr.chains[c].idx
                \/ c \in FilterChains /\ pr'.chains[c].idx = -1]_vars

----------------------------------------------------------------------------
(* Termination of do_probe *)

\* the prober p with every chain disabled
AllDisabled(p) ==
    [p EXCEPT !.chains = [c \in Chains |-> [p.chains[c] EXCEPT !.enabled = FALSE]]]

DoProbeTerminatesOnArea ==
    /\ (hist.op = "do_probe" /\ pr.size # 0) =>
          /\ pc # "hung"
          /\ \A k \in DOMAIN hist.calls : pr.chains[hist.calls[k][1]].enabled
    /\ pc = "ready" =>
          LET done(r) == /\ ~r.hang
                         /\ r.rc = 1
                         /\ r.calls = <<>>
                         /\ r.pr.cur_chain = NoChain
          IN  done(blkid_do_probe(AllDisabled(pr), dev, "ok"))

\* a do_probe on a prober without a probing area does not come back: the
\* chain bails out at the start and its idx is neither -1 nor at the end
DoProbeHangs ==
    /\ pc = "hung"
    /\ hist.op = "do_probe"
    /\ pr.size = 0
    /\ pr.cur_chain # NoChain
    /\ pr.chains[pr.cur_chain].idx = 0

----------------------------------------------------------------------------
(* Where do_wipe writes *)

\* the length of the magic value of the current chain, 0 without one
MagicLenOf(p) ==
    LET nm == IF p.cur_chain = NoChain THEN <<>> ELSE MagicNames(p.cur_chain)
        v  == IF nm = <<>> THEN {} ELSE blkid_probe_lookup_value(p, nm[1])
    IN  IF v = {} THEN 0 ELSE (CHOOSE x \in v : TRUE).len

\* C39 as stated: do_wipe(FALSE) zeroes exactly the device bytes at which
\* the current signature's magic was matched: the write starts at device
\* offset window.off + (matched offset within the window) and covers the
\* magic length, for every probing window including windows with a non-zero
\* offset.
C39_WipeAtMatch_AsStated ==
    (pc = "ready" /\ hist.op = "do_probe" /\ hist.rc = 0 /\ MagicOnList(pr)) =>
        LET wiped(r) ==
                /\ r.rc = 0
                /\ r.dev = DevZero(dev, pr.off + MagicOffsetOf(pr), MagicLenOf(pr))
        IN  wiped(blkid_do_wipe(pr, dev, FALSE, "ok"))

\* do_wipe(FALSE) zeroes the bytes of the magic length at the device offset
\* that equals the matched offset within the probing area; this is the place
\* of the match when the area begins at the begin of the device.
WipeAtAreaOffset ==
    (pc = "ready" /\ hist.op = "do_probe" /\ hist.rc = 0 /\ MagicOnList(pr)) =>
        LET wiped(r) ==
                /\ r.rc = 0
                /\ r.dev = DevZero(dev, MagicOffsetOf(pr), MagicLenOf(pr))
                /\ pr.off = 0 =>
                      ~\E s \in r.dev.data : s.off = pr.off + MagicOffsetOf(pr)
        IN  wiped(blkid_do_wipe(pr, dev, FALSE, "ok"))

\* do_wipe(FALSE) has returned 0 and the signature that do_probe reported is
\* still on the device
WipedBesideSignature ==
    /\ pc = "ready"
    /\ hist.op = "do_wipe"
    /\ hist.rc = 0
    /\ hist.prev.moff # -1
    /\ pr.off # 0
    /\ \E s \in dev.data : s.off = pr.off + hist.prev.moff

----------------------------------------------------------------------------
(* The references to configurations (config.c, probe.c, cache.c).  The heap  *)
(* is the sequence of the configurations blkid_read_config() has allocated:  *)
(* [refcount, freed]; the number of a configuration is its pointer, 0 the    *)
(* NULL pointer.                                                             *)

\* how many configurations are read, and how many probers live at a time
MaxConfs == 3
MaxProbers == 2

\* how many references to one configuration the callers hold at most
MaxRefs == 2

NoConf == 0

\* blkid_read_config(): a new configuration with one reference; ok = FALSE is
\* a parse error, where the configuration is allocated and freed again and
\* NULL is returned.  [heap, conf]
read_config(heap, ok) ==
    IF ok THEN [heap |-> Append(heap, [refcount |-> 1, freed |-> FALSE]),
                conf |-> Len(heap) + 1]
    ELSE [heap |-> heap, conf |-> NoConf]

\* blkid_ref_config()
blkid_ref_config(heap, conf) ==
    IF conf = NoConf THEN heap ELSE [heap EXCEPT ![conf].refcount = @ + 1]

\* blkid_unref_config(): [heap, uaf]; uaf says that the call was made for a
\* configuration that is freed already
blkid_unref_config(heap, conf) ==
    IF conf = NoConf THEN [heap |-> heap, uaf |-> FALSE]
    ELSE [heap |-> [heap EXCEPT ![conf].refcount = @ - 1,
                                ![conf].freed = @ \/ heap[conf].refcount - 1 <= 0],
          uaf |-> heap[conf].freed]

\* blkid_probe_set_config() for the prober with pr->conf = old: [heap, conf, uaf]
blkid_probe_set_config(heap, old, conf) ==
    LET u == blkid_unref_config(blkid_ref_config(heap, conf), old)
    IN  [heap |-> u.heap, conf |-> conf, uaf |-> u.uaf]

\* __blkid_new_probe(conf): calloc() leaves pr->conf = NULL; [heap, conf, uaf]
new_probe_with_config(heap, conf, ok) ==
    LET r == IF conf = NoConf THEN read_config(heap, ok)
             ELSE [heap |-> heap, conf |-> conf]
    IN  blkid_probe_set_config(r.heap, NoConf, r.conf)

\* blkid_clone_probe() of a prober with parent->conf = pconf: [heap, conf, uaf]
clone_probe_config(heap, pconf, ok) ==
    LET n == new_probe_with_config(heap, NoConf, ok)
        s == blkid_probe_set_config(n.heap, n.conf, pconf)
    IN  [heap |-> s.heap, conf |-> s.conf, uaf |-> n.uaf \/ s.uaf]

\* blkid_get_config(cache) for cache->conf = cconf: [heap, cconf, conf]
blkid_get_config(heap, cconf, ok) ==
    LET r == IF cconf = NoConf THEN read_config(heap, ok)
             ELSE [heap |-> heap, conf |-> cconf]
    IN  IF r.conf = NoConf THEN [heap |-> r.heap, cconf |-> NoConf, conf |-> NoConf]
        ELSE [heap |-> blkid_ref_config(r.heap, r.conf), cconf |-> r.conf,
              conf |-> r.conf]

\* blkid_get_cache_filename(cache) without BLKID_FILE in the environment and
\* without a file name in the cache: [heap, cconf, uaf]
blkid_get_cache_filename(heap, cconf, ok) ==
    LET g == blkid_get_config(heap, cconf, ok)
        u == blkid_unref_config(g.heap, g.conf)
    IN  [heap |-> u.heap, cconf |-> g.cconf, uaf |-> u.uaf]

(* The specification SpecRef: probers, one cache and the callers' references *)

RefProbers == 1 .. MaxProbers

\* a prober or a cache that is not allocated
NoHolder == [live |-> FALSE, conf |-> NoConf]

RefCall(op, who, conf) == [op |-> op, who |-> who, conf |-> conf]

\* pr: the probers and the cache with their conf pointers, and refs, the
\* number of references to each configuration that callers hold
InitRef ==
    /\ dev = <<>>
    /\ pr = [probers |-> [p \in RefProbers |-> NoHolder], cache |-> NoHolder,
             refs |-> [c \in 1 .. MaxConfs |-> 0]]
    /\ pc = "ready"
    /\ hist = RefCall("none", 0, NoConf)

\* the step ends with the heap r.heap
RefDone(r, uaf) ==
    /\ dev' = r.heap
    /\ pc' = IF uaf THEN "undefined" ELSE "ready"

\* blkid_new_probe()
RefNewProbe ==
    /\ pc = "ready"
    /\ Len(dev) < MaxConfs
    /\ \E p \in RefProbers, ok \in BOOLEAN :
          /\ ~pr.probers[p].live
          /\ LET r == new_probe_with_config(dev, NoConf, ok)
             IN  /\ pr' = [pr EXCEPT !.probers[p] = [live |-> TRUE, conf |-> r.conf]]
                 /\ RefDone(r, r.uaf)
                 /\ hist' = RefCall("new_probe", p, r.conf)

\* blkid_clone_probe()
RefCloneProbe ==
    /\ pc = "ready"
    /\ Len(dev) < MaxConfs
    /\ \E parent \in RefProbers, p \in RefProbers, ok \in BOOLEAN :
          /\ pr.probers[parent].live
          /\ ~pr.probers[p].live
          /\ LET r == clone_probe_config(dev, pr.probers[parent].conf, ok)
             IN  /\ pr' = [pr EXCEPT !.probers[p] = [live |-> TRUE, conf |-> r.conf]]
                 /\ RefDone(r, r.uaf)
                 /\ hist' = RefCall("clone_probe", p, r.conf)

\* blkid_probe_get_config(): reads the configuration if the prober has none
RefProbeGetConfig ==
    /\ pc = "ready"
    /\ Len(dev) < MaxConfs
    /\ \E p \in RefProbers, ok \in BOOLEAN :
          /\ pr.probers[p].live
          /\ LET r == IF pr.probers[p].conf = NoConf THEN read_config(dev, ok)
                      ELSE [heap |-> dev, conf |-> pr.probers[p].conf]
             IN  /\ pr' = [pr EXCEPT !.probers[p].conf = r.conf]
                 /\ RefDone(r, FALSE)
                 /\ hist' = RefCall("probe_get_config", p, r.conf)

\* blkid_free_probe()
RefFreeProbe ==
    /\ pc = "ready"
    /\ \E p \in RefProbers :
          /\ pr.probers[p].live
          /\ LET r == blkid_unref_config(dev, pr.probers[p].conf)
             IN  /\ pr' = [pr EXCEPT !.probers[p] = NoHolder]
                 /\ RefDone(r, r.uaf)
                 /\ hist' = RefCall("free_probe", p, pr.probers[p].conf)

\* blkid_read_config() called by the user of the library
RefReadConfig ==
    /\ pc = "ready"
    /\ Len(dev) < MaxConfs
    /\ LET r == read_config(dev, TRUE)
       IN  /\ pr' = [pr EXCEPT !.refs[r.conf] = @ + 1]
           /\ RefDone(r, FALSE)
           /\ hist' = RefCall("read_config", 0, r.conf)

\* blkid_get_cache(): new_cache_for_file() without a file name
RefGetCache ==
    /\ pc = "ready"
    /\ Len(dev) < MaxConfs
    /\ ~pr.cache.live
    /\ \E ok \in BOOLEAN :
          LET r == blkid_get_cache_filename(dev, NoConf, ok)
          IN  /\ pr' = [pr EXCEPT !.cache = [live |-> TRUE, conf |-> r.cconf]]
              /\ RefDone(r, r.uaf)
              /\ hist' = RefCall("get_cache", 0, r.cconf)

\* blkid_get_cache_for_config() with a configuration the caller holds
RefGetCacheForConfig ==
    /\ pc = "ready"
    /\ ~pr.cache.live
    /\ \E c \in DOMAIN dev :
          /\ pr.refs[c] > 0
          /\ LET r == blkid_get_cache_filename(blkid_ref_config(dev, c), c, TRUE)
             IN  /\ pr' = [pr EXCEPT !.cache = [live |-> TRUE, conf |-> r.cconf]]
                 /\ RefDone(r, r.uaf)
                 /\ hist' = RefCall("get_cache_for_config", 0, c)

\* blkid_get_config(cache): the caller gets a reference
RefGetConfig ==
    /\ pc = "ready"
    /\ Len(dev) < MaxConfs
    /\ pr.cache.live
    /\ \A c \in DOMAIN pr.refs : pr.refs[c] < MaxRefs
    /\ \E ok \in BOOLEAN :
          LET r == blkid_get_config(dev, pr.cache.conf, ok)
          IN  /\ pr' = [pr EXCEPT !.cache.conf = r.cconf,
                                  !.refs = IF r.conf = NoConf THEN @
                                           ELSE [@ EXCEPT ![r.conf] = @ + 1]]
              /\ RefDone(r, FALSE)
              /\ hist' = RefCall("get_config", 0, r.conf)

\* blkid_put_cache(): free_cache()
RefPutCache ==
    /\ pc = "ready"
    /\ pr.cache.live
    /\ LET r == blkid_unref_config(dev, pr.cache.conf)
       IN  /\ pr' = [pr EXCEPT !.cache = NoHolder]
           /\ RefDone(r, r.uaf)
           /\ hist' = RefCall("put_cache", 0, pr.cache.conf)

\* blkid_unref_config() by a caller for a reference it holds
RefUnrefConfig ==
    /\ pc = "ready"
    /\ \E c \in DOMAIN dev :
          /\ pr.refs[c] > 0
          /\ LET r == blkid_unref_config(dev, c)
             IN  /\ pr' = [pr EXCEPT !.refs[c] = @ - 1]
                 /\ RefDone(r, r.uaf)
                 /\ hist' = RefCall("unref_config", 0, c)

NextRef ==
    \/ RefNewProbe
    \/ RefCloneProbe
    \/ RefProbeGetConfig
    \/ RefFreeProbe
    \/ RefReadConfig
    \/ RefGetCache
    \/ RefGetCacheForConfig
    \/ RefGetConfig
    \/ RefPutCache
    \/ RefUnrefConfig

SpecRef == InitRef /\ [][NextRef]_vars

(* Properties of the specification SpecRef *)

\* the number of live holders of configuration c
ConfHolders(c) ==
    Cardinality({p \in RefProbers : pr.probers[p].live /\ pr.probers[p].conf = c})
    + (IF pr.cache.live /\ pr.cache.conf = c THEN 1 ELSE 0)
    + pr.refs[c]

\* C40 as stated: A configuration object's reference count always equals
\* the number of its live holders (probers, caches and references handed to
\* callers), so the object is freed exactly when the last holder releases
\* it: after blkid_new_probe() followed by blkid_free_probe() the
\* configuration read for that prober has been freed, and no configuration
\* is freed while a prober, clone or cache still points to it.
C40_RefcountIsHolders_AsStated ==
    pc = "ready" =>
        \A c \in DOMAIN dev :
            /\ ~dev[c].freed => dev[c].refcount = ConfHolders(c)
            /\ dev[c].freed <=> ConfHolders(c) = 0

\* No configuration is freed while a prober, a clone, a cache or a caller
\* holds it: the reference count is never below the number of holders.
HeldConfigNotFreed ==
    /\ pc = "ready"
    /\ \A c \in DOMAIN dev :
          /\ dev[c].refcount >= ConfHolders(c)
          /\ dev[c].freed => ConfHolders(c) = 0

\* the prober made by blkid_new_probe() was freed and its configuration is
\* still allocated with one reference and without a holder
ConfigLeaked ==
    /\ hist.op = "free_probe"
    /\ hist.conf # NoConf
    /\ ~dev[hist.conf].freed
    /\ dev[hist.conf].refcount = 1
    /\ ConfHolders(hist.conf) = 0
============================================================================
